---- MODULE Spec2Model ----
(***************************************************************************)
(* A model of graphslice: the dependency graph and its breadth-first       *)
(* traversal (graph.rs), the budgeted hierarchical renderer                *)
(* (compression.rs), the language-server client (lsp_client.rs) and the    *)
(* strict / fuzzy slicers (slicer.rs, fuzzy_slicer.rs).                    *)
(*                                                                         *)
(* The module holds several specifications over one set of variables; each *)
(* specification drives one component and leaves the variables of the      *)
(* other components at their initial values.                               *)
(***************************************************************************)
EXTENDS Integers, Sequences, FiniteSets, TLC

VARIABLES
    nodes,          \* DependencyGraph.nodes : NodeId -> CodeNode (a function on the keys)
    edges,          \* DependencyGraph.edges : Vec<Edge>
    bfs_pc,         \* position of a bfs_from call: "idle", "loop", "done"
    bfs_root,       \* the root argument of the running bfs_from call
    visited,        \* bfs_from: HashSet<NodeId>
    queue,          \* bfs_from: VecDeque<(NodeId, usize)>
    result,         \* bfs_from: Vec<(NodeId, usize)>
    ctx_pc,         \* position of a HierarchicalContext::build call: "idle", "done", "panic"
    ctx_root,       \* build: the root argument
    max_tokens,     \* build: the max_tokens argument
    current_tokens, \* build: current_tokens when the loop ended
    sections,       \* HierarchicalContext.sections : NodeId -> (String, InclusionLevel)
    next_id,        \* LspClient.next_id
    pending,        \* LspClient.pending_requests : id -> the caller holding the receiver
    chan,           \* the unbounded channel writer_tx -> writer_rx
    writer_open,    \* the writer task runs (writer_rx is not dropped)
    reader_alive,   \* the reader task runs
    backend_up,     \* the rust-analyzer child runs (its pipes are open)
    inflight,       \* requests the backend has read and not answered yet
    c_pc,           \* per caller: position in LspClient::request
    c_req,          \* per caller: the request it makes (method and params)
    c_attempts,     \* per caller: request's local `attempts`
    c_id,           \* per caller: request's local `id`
    c_rx,           \* per caller: what its one-shot receiver holds
    c_ret,          \* per caller: what request returned
    c_slept,        \* per caller: milliseconds request has slept in all
    c_after_eof,    \* per caller: the call began after the reader saw EOF
    last_notify,    \* the last notify call: whether after EOF, and its result
    diagnostics,    \* LspClient.diagnostics : Uri -> Vec<Diagnostic> (their severities)
    notifications,  \* publishDiagnostics messages written by the backend, not yet read
    srv_opened,     \* the backend has a didOpen it has not published diagnostics for
    srv_diag,       \* the diagnostics the backend computes for the opened file
    d_handled,      \* the publishDiagnostics notifications the reader task has handled, in order
    d_query,        \* the last get_diagnostics call: its path, its result, and how many
                    \* notifications had been handled when it was made
    symbol_cache,   \* FuzzySlicer.symbol_cache : name -> Vec<LocatedSymbol>
    workspace_scanned, \* FuzzySlicer.workspace_scanned
    s_pc,           \* position of a build_graph call (the await it is suspended at)
    s_target,       \* build_graph: target_id
    s_strategy,     \* build_graph: the slicer chosen, "none" before the choice
    s_requests,     \* methods of the requests build_graph has issued
    s_defs,         \* build_graph: defs
    s_d,            \* build_graph: position in defs
    s_reported,     \* the outgoing calls the backend has reported, with their caller
    s_answers,      \* locations the backend has answered with so far
    s_ret,          \* what build_graph returned: "none", "ok", "err"
    s_builds,       \* build_graph calls made so far
    s_backend,      \* what the backend and the LLM answer for the workspace as it is
    s_kept,         \* the results of the build_graph calls whose result the caller kept
    v_pc,           \* position of a Verifier call: "idle", "done"
    v_constraints,  \* the constraints argument of the Verifier call
    v_target,       \* verify_integer_reachability: the target argument
    v_ret,          \* what the Verifier call returned, with the function called
    e_pc,           \* position of an is_reachable call on a function body: "idle", "done"
    e_body,         \* the function body the call site stands in
    e_ret,          \* the constraints extracted for the site and what is_reachable returned
    l_response,     \* the text the LLM answered with, as analyze_dependencies receives it
    l_ret           \* what analyze_dependencies returned

graphVars == <<nodes, edges>>
bfsVars == <<bfs_pc, bfs_root, visited, queue, result>>
ctxVars == <<ctx_pc, ctx_root, max_tokens, current_tokens, sections>>
lspVars == <<next_id, pending, chan, writer_open, reader_alive, backend_up, inflight>>
callerVars == <<c_pc, c_req, c_attempts, c_id, c_rx, c_ret, c_slept, c_after_eof, last_notify>>
diagVars == <<diagnostics, notifications, srv_opened, srv_diag, d_handled, d_query>>
fuzzyVars == <<symbol_cache, workspace_scanned>>
buildVars == <<s_pc, s_target, s_strategy, s_requests, s_defs, s_d, s_reported, s_answers, s_ret, s_builds, s_backend, s_kept>>
sliceVars == <<diagVars, fuzzyVars, buildVars>>
verifierVars == <<v_pc, v_constraints, v_target, v_ret>>
extractVars == <<e_pc, e_body, e_ret>>
llmVars == <<l_response, l_ret>>
vars == <<graphVars, bfsVars, ctxVars, lspVars, callerVars, sliceVars, verifierVars, extractVars, llmVars>>

----------------------------------------------------------------------------
(* Bounds of the model *)

\* lines of a file are 0..MaxLine
MaxLine == 2
\* the longest edge list a traversal is checked on
MaxEdges == 3
\* the longest edge list a context is built from
MaxCtxEdges == 2
\* request ids are allocated up to MaxId
MaxId == 5
\* notifications are sent up to MaxNotify times
MaxNotify == 1

\* the backend publishes diagnostics of its own accord up to MaxPublish times
MaxPublish == 3
\* the backend answers one build_graph call with up to MaxAnswers locations
MaxAnswers == 2
\* build_graph is called up to MaxBuilds times
MaxBuilds == 1
\* the longest constraint list the verifier is called on
MaxConstraints == 2
\* the most statements a function body has before its `if`
MaxStmts == 2
\* the longest LLM response, in pieces of text
MaxPieces == 5

----------------------------------------------------------------------------
(* graph.rs: NodeId, EdgeType, CodeNode, Edge, DependencyGraph *)

Files == {"main.rs"}
Lines == 0..MaxLine
Columns == {0, 3, 7}

NodeId == [file : Files, line : Lines, column : Columns]

\* the value of a NodeId variable that holds no NodeId
NoNodeId == [file |-> "none", line |-> 0, column |-> 0]

EdgeType == {"Defines", "Calls", "Reads", "Writes", "References"}

\* the NodeIds the traversal specification draws its edges from
BfsNodeId == {n \in NodeId : n.line \in {0, MaxLine} /\ n.column \in {0, 3}}

\* the NodeIds the renderer specification draws its graphs from
CtxNodeId == {n \in NodeId : n.line = 0}

CodeNode(id, code, node_type) == [id |-> id, code |-> code, node_type |-> node_type]

Edge(from, to, edge_type) == [from |-> from, to |-> to, edge_type |-> edge_type]

\* DependencyGraph::new
EmptyNodes == <<>>
EmptyEdges == <<>>

\* DependencyGraph::add_edge: push
add_edge(es, e) == Append(es, e)

----------------------------------------------------------------------------
(* The state of each component when no call of it is running *)

\* no bfs_from call is running
BfsIdle ==
    /\ bfs_pc = "idle"
    /\ bfs_root = NoNodeId
    /\ visited = {}
    /\ queue = <<>>
    /\ result = <<>>

\* no HierarchicalContext exists
CtxIdle ==
    /\ ctx_pc = "idle"
    /\ ctx_root = NoNodeId
    /\ max_tokens = 0
    /\ current_tokens = 0
    /\ sections = <<>>

\* the tasks that call the client, each through its own clone of it
Callers == {1, 2}

NoValue == [kind |-> "none"]

\* the client as LspClient::new leaves it, with the backend running and no
\* call in progress
LspIdle ==
    /\ next_id = 0
    /\ pending = <<>>
    /\ chan = <<>>
    /\ writer_open = TRUE
    /\ reader_alive = TRUE
    /\ backend_up = TRUE
    /\ inflight = {}

CallersIdle ==
    /\ c_pc = [c \in Callers |-> "idle"]
    /\ c_req = [c \in Callers |-> NoValue]
    /\ c_attempts = [c \in Callers |-> 0]
    /\ c_id = [c \in Callers |-> 0]
    /\ c_rx = [c \in Callers |-> NoValue]
    /\ c_ret = [c \in Callers |-> NoValue]
    /\ c_slept = [c \in Callers |-> 0]
    /\ c_after_eof = [c \in Callers |-> FALSE]
    /\ last_notify = [kind |-> "none", n |-> 0, after_eof |-> FALSE]

\* get_diagnostics has not been called
NoQuery == [path |-> "none", ret |-> <<>>, at |-> 0]

\* no answers of the backend are fixed in advance
NoBackend == [target |-> NoNodeId, diag |-> <<>>, refs |-> <<>>, defs |-> <<>>,
              items |-> 0, outgoing |-> <<>>, calls |-> <<>>, types |-> <<>>]

\* a new Slicer: no diagnostics received, nothing scanned, no build_graph call
SliceIdle ==
    /\ diagnostics = <<>>
    /\ notifications = <<>>
    /\ srv_opened = FALSE
    /\ srv_diag = <<>>
    /\ d_handled = <<>>
    /\ d_query = NoQuery
    /\ symbol_cache = <<>>
    /\ workspace_scanned = FALSE
    /\ s_pc = "idle"
    /\ s_target = NoNodeId
    /\ s_strategy = "none"
    /\ s_requests = {}
    /\ s_defs = <<>>
    /\ s_d = 0
    /\ s_reported = <<>>
    /\ s_answers = 0
    /\ s_ret = "none"
    /\ s_builds = 0
    /\ s_backend = NoBackend
    /\ s_kept = <<>>

\* no Verifier call is running
VerifierIdle ==
    /\ v_pc = "idle"
    /\ v_constraints = <<>>
    /\ v_target = [var |-> "", op |-> "", val |-> 0]
    /\ v_ret = [fn |-> "none"]

\* a function body: the statements of the function's block before an `if`,
\* the condition of the `if` (NoCond: the body has none), and the statements
\* of its consequence block; the call site follows them
NoCond == [literal_left |-> FALSE, var |-> "", op |-> "", val |-> 0]
NoBody == [pre |-> <<>>, cond |-> NoCond, inner |-> <<>>]

\* no is_reachable call on a function body is running
ExtractIdle ==
    /\ e_pc = "idle"
    /\ e_body = NoBody
    /\ e_ret = [fn |-> "none"]

\* analyze_dependencies has not been called
LlmIdle ==
    /\ l_response = <<>>
    /\ l_ret = [kind |-> "none"]

----------------------------------------------------------------------------
(* graph.rs: bfs_from *)

\* ScanEdges without the `!visited.contains(&edge.to)` test
RECURSIVE ScanEdgesNoVisited(_, _, _, _, _)
ScanEdgesNoVisited(es, i, node_id, distance, vq) ==
    IF i > Len(es) THEN vq
    ELSE LET e == es[i] IN
         IF e.from = node_id
         THEN ScanEdgesNoVisited(es, i + 1, node_id, distance,
                        <<vq[1] \cup {e.to}, Append(vq[2], <<e.to, distance + 1>>)>>)
         ELSE ScanEdgesNoVisited(es, i + 1, node_id, distance, vq)

\* ScanEdges with push_front in place of push_back
RECURSIVE ScanEdgesLifo(_, _, _, _, _)
ScanEdgesLifo(es, i, node_id, distance, vq) ==
    IF i > Len(es) THEN vq
    ELSE LET e == es[i] IN
         IF e.from = node_id /\ e.to \notin vq[1]
         THEN ScanEdgesLifo(es, i + 1, node_id, distance,
                        <<vq[1] \cup {e.to}, <<<<e.to, distance + 1>>>> \o vq[2]>>)
         ELSE ScanEdgesLifo(es, i + 1, node_id, distance, vq)

\* ScanEdges with the popped node's distance given to the nodes it queues
RECURSIVE ScanEdgesSameDistance(_, _, _, _, _)
ScanEdgesSameDistance(es, i, node_id, distance, vq) ==
    IF i > Len(es) THEN vq
    ELSE LET e == es[i] IN
         IF e.from = node_id /\ e.to \notin vq[1]
         THEN ScanEdgesSameDistance(es, i + 1, node_id, distance,
                        <<vq[1] \cup {e.to}, Append(vq[2], <<e.to, distance>>)>>)
         ELSE ScanEdgesSameDistance(es, i + 1, node_id, distance, vq)

\* the inner for loop of bfs_from over self.edges[i..], for the node popped
\* with the given distance; vq = <<visited, queue>>
RECURSIVE ScanEdges(_, _, _, _, _)
ScanEdges(es, i, node_id, distance, vq) ==
    IF i > Len(es) THEN vq
    ELSE LET e == es[i] IN
         IF e.from = node_id /\ e.to \notin vq[1]
         THEN ScanEdges(es, i + 1, node_id, distance,
                        <<vq[1] \cup {e.to}, Append(vq[2], <<e.to, distance + 1>>)>>)
         ELSE ScanEdges(es, i + 1, node_id, distance, vq)

\* the while loop of bfs_from, run to the end
RECURSIVE BfsLoop(_, _, _, _)
BfsLoop(es, vis, q, res) ==
    IF q = <<>> THEN res
    ELSE LET vq == ScanEdges(es, 1, Head(q)[1], Head(q)[2], <<vis, Tail(q)>>)
         IN BfsLoop(es, vq[1], vq[2], Append(res, Head(q)))

\* bfs_from(root) on the edge list es
bfs_from(es, root) == BfsLoop(es, {root}, <<<<root, 0>>>>, <<>>)

\* bfs_from, up to the loop: the root is queued at distance 0 and marked visited
BfsStart(root) ==
    /\ bfs_pc = "idle"
    /\ bfs_pc' = "loop"
    /\ bfs_root' = root
    /\ queue' = <<<<root, 0>>>>
    /\ visited' = {root}
    /\ result' = <<>>
    /\ UNCHANGED <<graphVars, ctxVars, verifierVars, extractVars, llmVars, sliceVars, lspVars, callerVars>>

\* one iteration of `while let Some((node_id, distance)) = queue.pop_front()`
BfsStep ==
    /\ bfs_pc = "loop"
    /\ queue # <<>>
    /\ LET node_id == Head(queue)[1]
           distance == Head(queue)[2]
           vq == ScanEdges(edges, 1, node_id, distance, <<visited, Tail(queue)>>)
       IN /\ result' = Append(result, <<node_id, distance>>)
          /\ visited' = vq[1]
          /\ queue' = vq[2]
    /\ UNCHANGED <<bfs_pc, bfs_root, graphVars, ctxVars, verifierVars, extractVars, llmVars, sliceVars, lspVars, callerVars>>

\* the queue is empty: the loop ends and bfs_from returns result
BfsReturn ==
    /\ bfs_pc = "loop"
    /\ queue = <<>>
    /\ bfs_pc' = "done"
    /\ UNCHANGED <<bfs_root, visited, queue, result, graphVars, ctxVars, verifierVars, extractVars, llmVars, sliceVars, lspVars, callerVars>>

\* the caller drops the returned vector
BfsDrop ==
    /\ bfs_pc = "done"
    /\ bfs_pc' = "idle"
    /\ bfs_root' = NoNodeId
    /\ visited' = {}
    /\ queue' = <<>>
    /\ result' = <<>>
    /\ UNCHANGED <<graphVars, ctxVars, verifierVars, extractVars, llmVars, sliceVars, lspVars, callerVars>>

\* add_edge on a graph no traversal borrows
AddEdge(from, to, edge_type) ==
    /\ bfs_pc = "idle"
    /\ Len(edges) < MaxEdges
    /\ edges' = add_edge(edges, Edge(from, to, edge_type))
    /\ UNCHANGED <<nodes, bfsVars, ctxVars, verifierVars, extractVars, llmVars, sliceVars, lspVars, callerVars>>

InitBfs ==
    /\ nodes = EmptyNodes
    /\ edges = EmptyEdges
    /\ BfsIdle
    /\ CtxIdle
    /\ LspIdle
    /\ CallersIdle
    /\ SliceIdle
    /\ VerifierIdle
    /\ ExtractIdle
    /\ LlmIdle

NextBfs ==
    \/ \E from \in BfsNodeId, to \in BfsNodeId : AddEdge(from, to, "Calls")
    \/ \E root \in BfsNodeId : BfsStart(root)
    \/ BfsStep
    \/ BfsReturn
    \/ BfsDrop

SpecBfs == InitBfs /\ [][NextBfs]_vars

----------------------------------------------------------------------------
(* compression.rs: estimate_tokens, extract_interface, HierarchicalContext *)

\* A string is modelled by its lines: a sequence of [len, decl] records, len
\* the line's length in bytes and decl whether extract_interface keeps the
\* line (it starts with pub fn, fn, pub struct, struct or impl after
\* trimming, or contains "///").
Line(len, decl) == [len |-> len, decl |-> decl]

RECURSIVE SumLen(_)
SumLen(ls) == IF ls = <<>> THEN 0 ELSE Head(ls).len + SumLen(Tail(ls))

\* text.len() of the lines joined by "\n"
StrLen(ls) == IF ls = <<>> THEN 0 ELSE SumLen(ls) + (Len(ls) - 1)

\* estimate_tokens: text.len() / 4
estimate_tokens(text) == StrLen(text) \div 4

RECURSIVE KeepDecl(_)
KeepDecl(ls) ==
    IF ls = <<>> THEN <<>>
    ELSE IF Head(ls).decl THEN <<Head(ls)>> \o KeepDecl(Tail(ls))
         ELSE KeepDecl(Tail(ls))

\* extract_interface: the declaration lines, or the first line when there is none
extract_interface(code) ==
    LET kept == KeepDecl(code)
    IN IF kept = <<>>
       THEN (IF code = <<>> THEN <<>> ELSE <<Line(Head(code).len, FALSE)>>)
       ELSE kept

\* the length of a decimal rendering of n
Digits(n) == IF n < 10 THEN 1 ELSE IF n < 100 THEN 2 ELSE 3

\* file.display() of the model's one file, "main.rs", in bytes
PathLen(file) == 7

\* format!("// See: {}:{}", node_id.file.display(), node_id.line)
ReferenceText(node_id) ==
    <<Line(8 + PathLen(node_id.file) + 1 + Digits(node_id.line), FALSE)>>

\* one section: (content, level)
Section(content, level) == [content |-> content, level |-> level]

\* the match on depth, for the node at depth 0
Depth0(code, cur, max) ==
    [tokens |-> cur, section |-> Section(code, "FullSource")]

\* the match on depth, for the node at depth 1
Depth1(code, cur, max) ==
    LET tokens == estimate_tokens(code) IN
    IF cur + tokens <= max
    THEN [tokens |-> cur + tokens, section |-> Section(code, "FullSource")]
    ELSE LET summary == extract_interface(code)
         IN [tokens |-> cur + estimate_tokens(summary),
             section |-> Section(summary, "InterfaceSummary")]

\* the match on depth, for a node at depth 2 or more
Depth2(node_id, code, cur, max) ==
    LET summary == extract_interface(code)
        tokens == estimate_tokens(summary)
    IN IF cur + tokens <= max
       THEN [tokens |-> cur + tokens, section |-> Section(summary, "InterfaceSummary")]
       ELSE [tokens |-> cur, section |-> Section(ReferenceText(node_id), "Reference")]

\* the for loop of build over bfs[i..]; acc = [pc, tokens, sections]
RECURSIVE BuildLoop(_, _, _, _, _)
BuildLoop(ns, bfs, i, max, acc) ==
    IF i > Len(bfs) THEN acc
    ELSE IF acc.tokens >= max THEN acc                       \* break
    ELSE LET node_id == bfs[i][1]
             depth == bfs[i][2]
         IN IF node_id \notin DOMAIN ns
            THEN [acc EXCEPT !.pc = "panic"]                  \* unwrap on None
            ELSE LET code == ns[node_id].code
                     r == IF depth = 0 THEN Depth0(code, acc.tokens, max)
                          ELSE IF depth = 1 THEN Depth1(code, acc.tokens, max)
                          ELSE Depth2(node_id, code, acc.tokens, max)
                 IN BuildLoop(ns, bfs, i + 1, max,
                        [pc |-> acc.pc, tokens |-> r.tokens,
                         sections |-> [k \in DOMAIN acc.sections \cup {node_id} |->
                                          IF k = node_id THEN r.section
                                          ELSE acc.sections[k]]])

\* HierarchicalContext::build(graph, root, max_tokens)
build(ns, es, root, max) ==
    BuildLoop(ns, bfs_from(es, root), 1, max,
              [pc |-> "done", tokens |-> 0, sections |-> <<>>])

\* a call of HierarchicalContext::build
CtxBuild(root, max) ==
    /\ ctx_pc = "idle"
    /\ LET r == build(nodes, edges, root, max)
       IN /\ ctx_pc' = r.pc
          /\ current_tokens' = r.tokens
          /\ sections' = r.sections
    /\ ctx_root' = root
    /\ max_tokens' = max
    /\ UNCHANGED <<graphVars, bfsVars, lspVars, callerVars, sliceVars, verifierVars, extractVars, llmVars>>

\* the caller drops the context
CtxDrop ==
    /\ ctx_pc # "idle"
    /\ ctx_pc' = "idle"
    /\ ctx_root' = NoNodeId
    /\ max_tokens' = 0
    /\ current_tokens' = 0
    /\ sections' = <<>>
    /\ UNCHANGED <<graphVars, bfsVars, lspVars, callerVars, sliceVars, verifierVars, extractVars, llmVars>>

\* the source texts the renderer is checked on: a 4000-byte one-line text, a
\* 4000-byte function (a 32-byte signature and a 3967-byte body line) and an
\* 8-byte line
BigLine == <<Line(4000, FALSE)>>
BigFn == <<Line(32, TRUE), Line(3967, FALSE)>>
Tiny == <<Line(8, FALSE)>>
CtxCodes == {BigLine, BigFn, Tiny}

\* the budgets the renderer is checked on
CtxBudgets == {0, 8, 1500}

\* the edge lists of at most n edges between the NodeIds of S
EdgeLists(S, n) ==
    UNION {[1..k -> {Edge(a, b, "Calls") : a \in S, b \in S}] : k \in 0..n}

InitCtx ==
    /\ \E code \in [CtxNodeId -> CtxCodes] :
          nodes = [n \in CtxNodeId |-> CodeNode(n, code[n], "function_item")]
    /\ edges \in EdgeLists(CtxNodeId, MaxCtxEdges)
    /\ BfsIdle
    /\ CtxIdle
    /\ LspIdle
    /\ CallersIdle
    /\ SliceIdle
    /\ VerifierIdle
    /\ ExtractIdle
    /\ LlmIdle

NextCtx ==
    \/ \E root \in CtxNodeId, max \in CtxBudgets : CtxBuild(root, max)
    \/ CtxDrop

SpecCtx == InitCtx /\ [][NextCtx]_vars

----------------------------------------------------------------------------
(* lsp_client.rs: LspClient *)

\* the retry loop's limit on attempts and the back-off unit, in milliseconds
MaxAttempts == 5
BackoffMs == 500

\* JSON-RPC error objects a backend answers with
ContentModifiedCode == -32801
RpcErrors == {[code |-> ContentModifiedCode, message |-> "server busy"],
              [code |-> -32603, message |-> "content modified"],
              [code |-> -32603, message |-> "internal error"]}

Methods == {"textDocument/references"}

\* the request a caller makes: its method and params
Request(c, method) == [kind |-> "request", method |-> method, params |-> c]

\* what a one-shot channel carries: Ok(result) or Err("LSP Error: {error}");
\* re is the "id" of the message the value was taken from (0: none)
OkResult(id, req) == [kind |-> "ok", re |-> id, result |-> req]
\* Ok(Value::Null), sent when the message has neither "error" nor "result"
OkNull(id) == [kind |-> "ok", re |-> id, result |-> [kind |-> "null", method |-> "", params |-> 0]]
ErrLsp(id, error) == [kind |-> "err", re |-> id, error |-> error]
ErrWriterClosed == [kind |-> "err", re |-> 0, error |-> [code |-> 0, message |-> "LSP writer closed"]]

\* err_str.contains("content modified") || err_str.contains("-32801")
is_content_modified(v) ==
    /\ v.kind = "err"
    /\ v.error \in RpcErrors
    /\ (v.error.message = "content modified" \/ v.error.code = ContentModifiedCode)

\* f without the key k
RemoveKey(f, k) == [x \in DOMAIN f \ {k} |-> f[x]]

\* f with f[k] = v, k added when absent (HashMap::insert)
Insert(f, k, v) == [x \in DOMAIN f \cup {k} |-> IF x = k THEN v ELSE f[x]]

\* request is called
RequestCall(c, method) ==
    /\ c_pc[c] = "idle"
    /\ c_pc' = [c_pc EXCEPT ![c] = "loop"]
    /\ c_req' = [c_req EXCEPT ![c] = Request(c, method)]
    /\ c_attempts' = [c_attempts EXCEPT ![c] = 0]
    /\ c_after_eof' = [c_after_eof EXCEPT ![c] = ~reader_alive]
    /\ UNCHANGED <<c_id, c_rx, c_ret, c_slept, last_notify>>
    /\ UNCHANGED <<lspVars, graphVars, bfsVars, ctxVars, verifierVars, extractVars, llmVars, sliceVars>>

\* the id the loop takes under the next_id lock, here without the increment
AllocIdStale(n) == n

\* the id the loop takes under the next_id lock: *guard += 1; *guard
AllocId(n) == n + 1

\* top of the loop: attempts += 1 and the id is allocated
RequestAlloc(c) ==
    /\ c_pc[c] = "loop"
    /\ next_id < MaxId
    /\ c_attempts' = [c_attempts EXCEPT ![c] = @ + 1]
    /\ next_id' = (IF AllocId(next_id) > next_id THEN AllocId(next_id) ELSE next_id)
    /\ c_id' = [c_id EXCEPT ![c] = AllocId(next_id)]
    /\ c_pc' = [c_pc EXCEPT ![c] = "send"]
    /\ UNCHANGED <<c_req, c_rx, c_ret, c_slept, c_after_eof, last_notify>>
    /\ UNCHANGED <<pending, chan, writer_open, reader_alive, backend_up, inflight>>
    /\ UNCHANGED <<graphVars, bfsVars, ctxVars, verifierVars, extractVars, llmVars, sliceVars>>

\* the sender is stored under the id, then the request goes to the writer
\* channel; the send fails once the writer task has dropped its receiver
RequestSend(c) ==
    /\ c_pc[c] = "send"
    /\ pending' = Insert(pending, c_id[c], c)
    /\ c_rx' = [c_rx EXCEPT ![c] = NoValue]
    /\ IF writer_open
       THEN /\ chan' = Append(chan, [kind |-> "request", id |-> c_id[c], req |-> c_req[c]])
            /\ c_pc' = [c_pc EXCEPT ![c] = "await"]
            /\ UNCHANGED c_ret
       ELSE /\ c_ret' = [c_ret EXCEPT ![c] = ErrWriterClosed]
            /\ c_pc' = [c_pc EXCEPT ![c] = "done"]
            /\ UNCHANGED chan
    /\ UNCHANGED <<c_req, c_attempts, c_id, c_slept, c_after_eof, last_notify>>
    /\ UNCHANGED <<next_id, writer_open, reader_alive, backend_up, inflight>>
    /\ UNCHANGED <<graphVars, bfsVars, ctxVars, verifierVars, extractVars, llmVars, sliceVars>>

\* whether the loop goes round again on the error e of attempt number attempts,
\* with `attempts <= 5` in place of `attempts < 5`
RetriesOneMore(attempts, e) == attempts <= MaxAttempts /\ is_content_modified(e)

\* Retries on any error
RetriesAnyError(attempts, e) == attempts < MaxAttempts

\* whether the loop goes round again on the error e of attempt number attempts
Retries(attempts, e) == attempts < MaxAttempts /\ is_content_modified(e)

\* rx.await returns: Ok is returned, a content-modified error is slept on and
\* retried, any other error is returned
RequestAwait(c) ==
    /\ c_pc[c] = "await"
    /\ c_rx[c] # NoValue
    /\ IF c_rx[c].kind = "ok"
       THEN /\ c_ret' = [c_ret EXCEPT ![c] = c_rx[c]]
            /\ c_pc' = [c_pc EXCEPT ![c] = "done"]
            /\ UNCHANGED c_slept
       ELSE IF Retries(c_attempts[c], c_rx[c])
       THEN /\ c_slept' = [c_slept EXCEPT ![c] = @ + BackoffMs * c_attempts[c]]
            /\ c_pc' = [c_pc EXCEPT ![c] = "loop"]
            /\ UNCHANGED c_ret
       ELSE /\ c_ret' = [c_ret EXCEPT ![c] = c_rx[c]]
            /\ c_pc' = [c_pc EXCEPT ![c] = "done"]
            /\ UNCHANGED c_slept
    /\ c_rx' = [c_rx EXCEPT ![c] = NoValue]
    /\ UNCHANGED <<c_req, c_attempts, c_id, c_after_eof, last_notify>>
    /\ UNCHANGED <<lspVars, graphVars, bfsVars, ctxVars, verifierVars, extractVars, llmVars, sliceVars>>

\* notify: the notification goes to the writer channel
Notify(c) ==
    /\ last_notify.n < MaxNotify
    /\ LET n == last_notify.n + 1 IN
       IF writer_open
       THEN /\ chan' = Append(chan, [kind |-> "notification", id |-> 0, req |-> NoValue])
            /\ last_notify' = [kind |-> "ok", n |-> n, after_eof |-> ~reader_alive]
       ELSE /\ last_notify' = [kind |-> "err", n |-> n, after_eof |-> ~reader_alive]
            /\ UNCHANGED chan
    /\ UNCHANGED <<c_pc, c_req, c_attempts, c_id, c_rx, c_ret, c_slept, c_after_eof>>
    /\ UNCHANGED <<next_id, pending, writer_open, reader_alive, backend_up, inflight>>
    /\ UNCHANGED <<graphVars, bfsVars, ctxVars, verifierVars, extractVars, llmVars, sliceVars>>

\* the writer task takes a message off the channel and writes it to the
\* child's stdin; a failed write ends the task, which drops the receiver
WriterTask ==
    /\ writer_open
    /\ chan # <<>>
    /\ IF backend_up
       THEN /\ chan' = Tail(chan)
            /\ inflight' = (IF Head(chan).kind = "request"
                            THEN inflight \cup {[id |-> Head(chan).id, req |-> Head(chan).req]}
                            ELSE inflight)
            /\ UNCHANGED writer_open
       ELSE /\ writer_open' = FALSE
            /\ chan' = <<>>
            /\ UNCHANGED inflight
    /\ UNCHANGED <<next_id, pending, reader_alive, backend_up>>
    /\ UNCHANGED <<callerVars, graphVars, bfsVars, ctxVars, verifierVars, extractVars, llmVars, sliceVars>>

\* the sender the reader takes for a message with this id, were it to take
\* any registered sender whatever the id
TakeSenderAny(p, id) == IF DOMAIN p = {} THEN 0 ELSE CHOOSE k \in DOMAIN p : TRUE

\* the key of the sender the reader takes for a message with this id
\* (requests.remove(&id)); 0 when there is none
TakeSender(p, id) == IF id \in DOMAIN p THEN id ELSE 0

\* the reader's handling of an inbound message that carries an id and the
\* value v: the sender registered under the id is removed and v is sent on it;
\* the send is lost when the receiver is gone
Deliver(id, v) ==
    LET k == TakeSender(pending, id) IN
    IF k = 0
    THEN UNCHANGED <<pending, c_rx>>
    ELSE /\ pending' = RemoveKey(pending, k)
         /\ c_rx' = (IF c_pc[pending[k]] = "await" /\ c_id[pending[k]] = k
                     THEN [c_rx EXCEPT ![pending[k]] = v]
                     ELSE c_rx)

\* the reader task reads the backend's response to a request it has in flight
ReaderResponse(r, v) ==
    /\ reader_alive
    /\ r \in inflight
    /\ inflight' = inflight \ {r}
    /\ Deliver(r.id, v)
    /\ UNCHANGED <<next_id, chan, writer_open, reader_alive, backend_up>>
    /\ UNCHANGED <<c_pc, c_req, c_attempts, c_id, c_ret, c_slept, c_after_eof, last_notify>>
    /\ UNCHANGED <<graphVars, bfsVars, ctxVars, verifierVars, extractVars, llmVars, sliceVars>>

\* the reader task reads a request of the backend's own (a message with an id
\* and a method, and neither "result" nor "error"): it takes the branch for
\* responses
ReaderServerRequest(id) ==
    /\ reader_alive
    /\ backend_up
    /\ Deliver(id, OkNull(id))
    /\ UNCHANGED <<next_id, chan, writer_open, reader_alive, backend_up, inflight>>
    /\ UNCHANGED <<c_pc, c_req, c_attempts, c_id, c_ret, c_slept, c_after_eof, last_notify>>
    /\ UNCHANGED <<graphVars, bfsVars, ctxVars, verifierVars, extractVars, llmVars, sliceVars>>

\* the child exits: writes to its stdin fail from now on
BackendExit ==
    /\ backend_up
    /\ backend_up' = FALSE
    /\ UNCHANGED <<next_id, pending, chan, writer_open, reader_alive, inflight>>
    /\ UNCHANGED <<callerVars, graphVars, bfsVars, ctxVars, verifierVars, extractVars, llmVars, sliceVars>>

\* the reader task reads 0 bytes from the child's stdout and returns
ReaderEOF ==
    /\ reader_alive
    /\ ~backend_up
    /\ reader_alive' = FALSE
    /\ UNCHANGED <<next_id, pending, chan, writer_open, backend_up, inflight>>
    /\ UNCHANGED <<callerVars, graphVars, bfsVars, ctxVars, verifierVars, extractVars, llmVars, sliceVars>>

\* the answers a backend gives to the request r
Answers(r) == {OkResult(r.id, r.req)} \cup {ErrLsp(r.id, e) : e \in RpcErrors}

InitLsp ==
    /\ nodes = EmptyNodes
    /\ edges = EmptyEdges
    /\ BfsIdle
    /\ CtxIdle
    /\ LspIdle
    /\ CallersIdle
    /\ SliceIdle
    /\ VerifierIdle
    /\ ExtractIdle
    /\ LlmIdle

NextLsp ==
    \/ \E c \in Callers, m \in Methods : RequestCall(c, m)
    \/ \E c \in Callers : RequestAlloc(c)
    \/ \E c \in Callers : RequestSend(c)
    \/ \E c \in Callers : RequestAwait(c)
    \/ \E c \in Callers : Notify(c)
    \/ WriterTask
    \/ \E r \in inflight : \E v \in Answers(r) : ReaderResponse(r, v)
    \/ \E id \in DOMAIN pending : ReaderServerRequest(id)
    \/ BackendExit
    \/ ReaderEOF

SpecLsp == InitLsp /\ [][NextLsp]_vars

----------------------------------------------------------------------------
(* The workspace: one file, whose lines 0 .. SrcLines - 1 are one function *)

\* line MaxLine is past the end of the file
SrcLines == MaxLine

\* the text of the file: "fn f() {" and the lines of its body
Source == [i \in 1..SrcLines |-> Line(8, i = 1)]

\* the locations the backend answers with: the first and the last line
SliceNodeId == {n \in NodeId : n.column = 0 /\ n.line \in {0, SrcLines - 1}}

\* the targets build_graph is called on: these, and the line past the end
TargetNodeId == {n \in NodeId : n.column = 0 /\ n.line \in {0, SrcLines - 1, SrcLines}}

----------------------------------------------------------------------------
(* extractor.rs and verifier.rs, as is_reachable uses them *)

Constraint(var, op, val) == [var |-> var, op |-> op, val |-> val]

\* statements: `let x = <int>;` (also `let mut x = <int>;`) and `x = <int>;`
LetStmt(var, val) == [kind |-> "let_declaration", var |-> var, val |-> val]
AssignStmt(var, val) == [kind |-> "expression_statement", var |-> var, val |-> val]

\* conditions: `x op <int>`, or `<int> op x` when literal_left
Cond(var, op, val) == [literal_left |-> FALSE, var |-> var, op |-> op, val |-> val]
CondFlipped(val, op, var) == [literal_left |-> TRUE, var |-> var, op |-> op, val |-> val]

IsLet(stmt) == stmt.kind = "let_declaration"

\* parse_let_assignment over the children of a block that end before the path
LetAssignments(stmts) ==
    LET lets == SelectSeq(stmts, IsLet) IN
    [i \in DOMAIN lets |-> Constraint(lets[i].var, "==", lets[i].val)]

\* the match of parse_binary_expression, case 2; "" stands for `return None`
FlipOp(op) ==
    CASE op = ">" -> "<"
      [] op = "<" -> ">"
      [] op = ">=" -> "<="
      [] op = "<=" -> ">="
      [] op = "==" -> "=="
      [] op = "!=" -> "!="
      [] OTHER -> ""

\* parse_binary_expression: the Option as a sequence of at most one Constraint;
\* case 1 (identifier op literal) takes the operator's text as it is, case 2
\* (literal op identifier) goes through the match
parse_binary_expression(cond) ==
    IF ~cond.literal_left THEN <<Constraint(cond.var, cond.op, cond.val)>>
    ELSE IF FlipOp(cond.op) = "" THEN <<>>
    ELSE <<Constraint(cond.var, FlipOp(cond.op), cond.val)>>

\* parse_condition: the condition of the `if` is a binary_expression
parse_condition(cond) == parse_binary_expression(cond)

\* the walk of extract_constraints from the call site to the root: the lets
\* of the consequence block, the condition of the `if`, the lets of the
\* function's block
extract_constraints_in(body) ==
    IF body.cond = NoCond
    THEN [assignments |-> LetAssignments(body.pre), conditions |-> <<>>]
    ELSE [assignments |-> LetAssignments(body.inner) \o LetAssignments(body.pre),
          conditions |-> parse_condition(body.cond)]

\* the function bodies of the workspace file, by the column of the call site:
\*     let x = 5;  if x > 10 { <column 3> }
\*     let x = 20; if x > 10 { <column 7> }
\* and a call at any other column stands outside every block and every if
BodyAt(column) ==
    IF column = 3 THEN [pre |-> <<LetStmt("x", 5)>>, cond |-> Cond("x", ">", 10), inner |-> <<>>]
    ELSE IF column = 7 THEN [pre |-> <<LetStmt("x", 20)>>, cond |-> Cond("x", ">", 10), inner |-> <<>>]
    ELSE NoBody

\* Extractor::extract_constraints on the workspace file
extract_constraints(file, line, column) == extract_constraints_in(BodyAt(column))

\* the operators the match arms of verifier.rs build a term for
SupportedOps == {">", "<", ">=", "<=", "==", "!="}

MaxOf(S) == CHOOSE x \in S : \A y \in S : y <= x
MinOf(S) == CHOOSE x \in S : \A y \in S : x <= y

\* the positions of the asserted terms on var with an operator of ops
TermsOn(terms, var, ops) ==
    {i \in DOMAIN terms : terms[i].var = var /\ terms[i].op \in ops}

\* LowerBounds reading var.gt(v) as var.ge(v)
LowerBoundsWeak(terms, var) ==
    {terms[i].val : i \in TermsOn(terms, var, {">", ">=", "=="})}

\* the least integers the asserted terms allow for var:
\* var.gt(v), var.ge(v), var.eq(v)
LowerBounds(terms, var) ==
    {terms[i].val + 1 : i \in TermsOn(terms, var, {">"})}
        \cup {terms[i].val : i \in TermsOn(terms, var, {">=", "=="})}

\* the greatest integers the asserted terms allow for var:
\* var.lt(v), var.le(v), var.eq(v)
UpperBounds(terms, var) ==
    {terms[i].val - 1 : i \in TermsOn(terms, var, {"<"})}
        \cup {terms[i].val : i \in TermsOn(terms, var, {"<=", "=="})}

\* Excluded forgetting the != terms
ExcludedNone(terms, var) == {}

\* the integers the asserted terms forbid for var: var.eq(v).not()
Excluded(terms, var) == {terms[i].val : i \in TermsOn(terms, var, {"!="})}

\* solver.check() == SatResult::Sat for asserted comparisons of integer
\* constants with literals: every variable has an integer between its
\* greatest lower and least upper bound that is not excluded (a variable
\* unbounded on one side always has one)
SolverSat(terms) ==
    \A var \in {terms[i].var : i \in DOMAIN terms} :
        LET lo == LowerBounds(terms, var)
            up == UpperBounds(terms, var)
        IN IF lo = {} \/ up = {} THEN TRUE
           ELSE \E x \in MaxOf(lo)..MinOf(up) : x \notin Excluded(terms, var)

\* Supported taking every operator for a known one
SupportedAny(c) == TRUE

\* the tuple's operator has a match arm
Supported(c) == c.op \in SupportedOps

\* check_consistency with the answer negated
check_consistency_negated(constraints) ==
    ~SolverSat(SelectSeq(constraints, Supported))

\* Verifier::check_consistency: unsupported operators are skipped (continue),
\* the other tuples asserted; solver.check() == Sat
check_consistency(constraints) ==
    SolverSat(SelectSeq(constraints, Supported))

VerifierOk(value) == [kind |-> "ok", value |-> value]
VerifierErr == [kind |-> "err", value |-> "Unsupported operator"]

\* Verifier::verify_integer_reachability
verify_integer_reachability(constraints, target) ==
    IF \E i \in DOMAIN constraints : ~Supported(constraints[i]) THEN VerifierErr
    ELSE IF ~Supported(target) THEN VerifierErr
    ELSE VerifierOk(SolverSat(Append(constraints, target)))

\* Slicer::is_reachable (the file is readable)
\* is_reachable after the extraction: true without constraints, else
\* check_consistency of the assignments followed by the conditions
constraints_consistent(cs) ==
    IF cs.assignments = <<>> /\ cs.conditions = <<>> THEN TRUE
    ELSE check_consistency(cs.assignments \o cs.conditions)

is_reachable(file, line, col) ==
    constraints_consistent(extract_constraints(file, line, col))

\* Extractor::extract_block at column 0: the enclosing item, None past the end
extract_block(file, line) ==
    IF line < Len(Source) THEN [some |-> TRUE, block |-> Source]
    ELSE [some |-> FALSE, block |-> <<>>]

\* Slicer::read_location: the line, or the empty string past the end
read_location(file, line) ==
    IF line < Len(Source) THEN <<Source[line + 1]>> ELSE <<>>

\* Slicer::read_implementation
read_implementation(file, start_line) ==
    IF extract_block(file, start_line).some
    THEN extract_block(file, start_line).block
    ELSE IF start_line < Len(Source) THEN <<Source[start_line + 1]>> ELSE <<>>

\* Extractor::get_defined_symbols over the workspace files, in the order of
\* the scan: the function f, and a second item of the same name further down
DefinedSymbols ==
    <<[name |-> "f", kind |-> "function_item", code |-> Source, line |-> 0, file |-> "main.rs"],
      [name |-> "f", kind |-> "mod_item", code |-> <<Source[SrcLines]>>,
       line |-> SrcLines - 1, file |-> "main.rs"]>>

----------------------------------------------------------------------------
(* graph.rs: add_node; lsp_client.rs: the diagnostics table *)

\* add_node keeping nothing but the new node
add_node_fresh(ns, node) == [k \in {node.id} |-> node]

\* DependencyGraph::add_node: nodes.insert(node.id.clone(), node)
add_node(ns, node) ==
    [k \in DOMAIN ns \cup {node.id} |-> IF k = node.id THEN node ELSE ns[k]]

Graph(ns, es) == [nodes |-> ns, edges |-> es]

\* Url::from_file_path and Uri::from_str: the file URI of an absolute path
from_file_path(file_path) == [scheme |-> "file", path |-> file_path]

\* LspClient::get_diagnostics: guard.get(&uri).cloned().unwrap_or_default()
get_diagnostics(file_path) ==
    LET uri == from_file_path(file_path) IN
    IF uri \in DOMAIN diagnostics THEN diagnostics[uri] ELSE <<>>

\* an insert that keeps the list the URI already has
insert_if_absent(table, uri, ds) ==
    IF uri \in DOMAIN table THEN table ELSE Insert(table, uri, ds)

\* guard.insert(diag_params.uri, diag_params.diagnostics)
insert_diagnostics(table, uri, ds) == Insert(table, uri, ds)

Severity == {"Error", "Warning"}

\* what the backend may find in the opened file
DiagLists == {<<>>, <<"Warning">>, <<"Warning", "Error">>}

\* the backend answers didOpen with a publishDiagnostics notification
BackendPublish ==
    /\ srv_opened
    /\ srv_opened' = FALSE
    /\ notifications' = Append(notifications,
                                [uri |-> from_file_path(s_target.file), diagnostics |-> srv_diag])
    /\ UNCHANGED <<diagnostics, srv_diag, d_handled, d_query, fuzzyVars, buildVars>>
    /\ UNCHANGED <<graphVars, bfsVars, ctxVars, verifierVars, extractVars, llmVars, lspVars, callerVars>>

\* the reader task handles textDocument/publishDiagnostics:
\* guard.insert(params.uri, params.diagnostics)
ReaderDiagnostics ==
    /\ notifications # <<>>
    /\ LET n == Head(notifications) IN
       /\ diagnostics' = insert_diagnostics(diagnostics, n.uri, n.diagnostics)
       /\ d_handled' = Append(d_handled, n)
    /\ notifications' = Tail(notifications)
    /\ UNCHANGED <<srv_opened, srv_diag, d_query, fuzzyVars, buildVars>>
    /\ UNCHANGED <<graphVars, bfsVars, ctxVars, verifierVars, extractVars, llmVars, lspVars, callerVars>>

\* the files the backend publishes diagnostics for
DiagPaths == {"main.rs", "lib.rs"}

\* the backend writes a publishDiagnostics notification of its own accord
BackendPublishes(path, ds) ==
    /\ Len(d_handled) + Len(notifications) < MaxPublish
    /\ notifications' = Append(notifications,
                                [uri |-> from_file_path(path), diagnostics |-> ds])
    /\ UNCHANGED <<diagnostics, srv_opened, srv_diag, d_handled, d_query, fuzzyVars, buildVars>>
    /\ UNCHANGED <<graphVars, bfsVars, ctxVars, verifierVars, extractVars, llmVars, lspVars, callerVars>>

\* a call of get_diagnostics(&path)
GetDiagnostics(path) ==
    /\ d_query' = [path |-> path, ret |-> get_diagnostics(path), at |-> Len(d_handled)]
    /\ UNCHANGED <<diagnostics, notifications, srv_opened, srv_diag, d_handled, fuzzyVars, buildVars>>
    /\ UNCHANGED <<graphVars, bfsVars, ctxVars, verifierVars, extractVars, llmVars, lspVars, callerVars>>

InitDiag ==
    /\ nodes = EmptyNodes
    /\ edges = EmptyEdges
    /\ BfsIdle
    /\ CtxIdle
    /\ LspIdle
    /\ CallersIdle
    /\ SliceIdle
    /\ VerifierIdle
    /\ ExtractIdle
    /\ LlmIdle

NextDiag ==
    \/ \E path \in DiagPaths, ds \in DiagLists : BackendPublishes(path, ds)
    \/ ReaderDiagnostics
    \/ \E path \in DiagPaths : GetDiagnostics(path)

SpecDiag == InitDiag /\ [][NextDiag]_vars

----------------------------------------------------------------------------
(* fuzzy_slicer.rs: scan_workspace, add_dependency, slice *)

\* symbol_cache.entry(name).or_default().push(located)
PushSymbol(cache, sym) ==
    [k \in DOMAIN cache \cup {sym.name} |->
        IF k = sym.name
        THEN Append(IF k \in DOMAIN cache THEN cache[k] ELSE <<>>, sym)
        ELSE cache[k]]

RECURSIVE scan_workspace(_, _, _)
scan_workspace(cache, syms, i) ==
    IF i > Len(syms) THEN cache
    ELSE scan_workspace(PushSymbol(cache, syms[i]), syms, i + 1)

\* a slice that scans whether or not the workspace was scanned
scan_always(scanned, cache) == scan_workspace(cache, DefinedSymbols, 1)

\* slice, step 2: `if !self.workspace_scanned { self.scan_workspace(&root)?; .. }`
scan_if_needed(scanned, cache) ==
    IF scanned THEN cache ELSE scan_workspace(cache, DefinedSymbols, 1)

\* add_dependency adding the edge and never the node
add_dependency_edge_only(cache, g, target_id, name, edge_type) ==
    IF name \in DOMAIN cache /\ cache[name] # <<>>
    THEN LET def == Head(cache[name])
             def_id == [file |-> def.file, line |-> def.line, column |-> 0]
             et == IF edge_type = "Calls" THEN "Calls" ELSE "Defines"
         IN Graph(g.nodes, add_edge(g.edges, Edge(target_id, def_id, et)))
    ELSE g

\* add_dependency taking the last definition of the name
add_dependency_last(cache, g, target_id, name, edge_type) ==
    IF name \in DOMAIN cache /\ cache[name] # <<>>
    THEN LET def == cache[name][Len(cache[name])]
             def_id == [file |-> def.file, line |-> def.line, column |-> 0]
             ns == IF def_id \notin DOMAIN g.nodes
                   THEN add_node(g.nodes, CodeNode(def_id, def.code, def.kind))
                   ELSE g.nodes
             et == IF edge_type = "Calls" THEN "Calls" ELSE "Defines"
         IN Graph(ns, add_edge(g.edges, Edge(target_id, def_id, et)))
    ELSE g

\* FuzzySlicer::add_dependency
add_dependency(cache, g, target_id, name, edge_type) ==
    IF name \in DOMAIN cache /\ cache[name] # <<>>
    THEN LET def == Head(cache[name])
             def_id == [file |-> def.file, line |-> def.line, column |-> 0]
             ns == IF def_id \notin DOMAIN g.nodes
                   THEN add_node(g.nodes, CodeNode(def_id, def.code, def.kind))
                   ELSE g.nodes
             et == IF edge_type = "Calls" THEN "Calls" ELSE "Defines"
         IN Graph(ns, add_edge(g.edges, Edge(target_id, def_id, et)))
    ELSE g

RECURSIVE AddDependencies(_, _, _, _, _, _)
AddDependencies(cache, g, target_id, names, i, edge_type) ==
    IF i > Len(names) THEN g
    ELSE AddDependencies(cache, add_dependency(cache, g, target_id, names[i], edge_type),
                         target_id, names, i + 1, edge_type)

\* what the LLM may answer: names of the workspace and names unknown to it
LlmCalls == {<<>>, <<"f">>, <<"g">>, <<"g", "f">>}
LlmTypes == {<<>>, <<"f">>}

----------------------------------------------------------------------------
(* slicer.rs: build_graph *)

Methods_references == "textDocument/references"
Methods_definition == "textDocument/definition"
Methods_prepare == "textDocument/prepareCallHierarchy"
Methods_outgoing == "callHierarchy/outgoingCalls"
GraphMethods == {Methods_references, Methods_definition, Methods_prepare, Methods_outgoing}

\* the lists of at most k locations
LocLists(k) == UNION {[1..n -> SliceNodeId] : n \in 0..k}

\* the call sites of the function body (see extract_constraints)
Site(column) == [line |-> 0, character |-> column]
SiteLists == {<<Site(0)>>, <<Site(3)>>, <<Site(7)>>, <<Site(3), Site(7)>>}

\* CallHierarchyOutgoingCall: `to` by its NodeId, and from_ranges
OutgoingCall == [to : SliceNodeId, from_ranges : SiteLists]
CallLists(k) == UNION {[1..n -> OutgoingCall] : n \in 0..k}

\* build_graph is called: did_open is sent, then the fixed 2000 ms sleep begins
BuildGraph(target_id, diag) ==
    /\ s_pc = "idle"
    /\ s_builds' = s_builds + 1
    /\ s_pc' = "sleep"
    /\ s_target' = target_id
    /\ srv_opened' = TRUE
    /\ srv_diag' = diag
    /\ UNCHANGED <<diagnostics, notifications, d_handled, d_query, fuzzyVars>>
    /\ UNCHANGED <<s_strategy, s_requests, s_defs, s_d, s_reported, s_answers, s_ret, s_backend, s_kept>>
    /\ UNCHANGED <<graphVars, bfsVars, ctxVars, verifierVars, extractVars, llmVars, lspVars, callerVars>>

error_count(ds) == Cardinality({i \in DOMAIN ds : ds[i] = "Error"})

\* the sleep is over: the diagnostics are looked up and the slicer chosen.
\* Fuzzy: FuzzySlicer::slice up to the LLM call.  Strict: the target node is
\* added and get_references is issued.
SleepElapsed ==
    /\ s_pc = "sleep"
    /\ IF error_count(get_diagnostics(s_target.file)) > 0
       THEN /\ s_strategy' = "fuzzy"
            /\ UNCHANGED s_requests
            /\ LET blk == extract_block(s_target.file, s_target.line) IN
               IF blk.some \/ s_target.line < Len(Source)
               THEN /\ nodes' = add_node(EmptyNodes,
                                  CodeNode(s_target,
                                           IF blk.some THEN blk.block ELSE <<Source[s_target.line + 1]>>,
                                           "target"))
                    /\ edges' = EmptyEdges
                    /\ symbol_cache' = scan_if_needed(workspace_scanned, symbol_cache)
                    /\ workspace_scanned' = TRUE
                    /\ s_pc' = "llm"
                    /\ UNCHANGED s_ret
               ELSE /\ s_pc' = "done"
                    /\ s_ret' = "err"
                    /\ UNCHANGED <<graphVars, fuzzyVars>>
       ELSE /\ s_strategy' = "strict"
            /\ nodes' = add_node(EmptyNodes,
                          CodeNode(s_target, read_location(s_target.file, s_target.line), "target"))
            /\ edges' = EmptyEdges
            /\ s_requests' = s_requests \cup {Methods_references}
            /\ s_pc' = "references"
            /\ UNCHANGED <<fuzzyVars, s_ret>>
    /\ UNCHANGED <<diagVars, s_target, s_defs, s_d, s_reported, s_answers, s_builds, s_backend, s_kept>>
    /\ UNCHANGED <<bfsVars, ctxVars, verifierVars, extractVars, llmVars, lspVars, callerVars>>

\* a request of build_graph fails: `?` returns the error
RequestFails ==
    /\ s_pc \in {"references", "definition", "prepare", "outgoing", "llm"}
    /\ s_pc' = "done"
    /\ s_ret' = "err"
    /\ UNCHANGED <<diagVars, fuzzyVars, s_target, s_strategy, s_requests, s_defs, s_d, s_reported, s_answers, s_builds, s_backend, s_kept>>
    /\ UNCHANGED <<graphVars, bfsVars, ctxVars, verifierVars, extractVars, llmVars, lspVars, callerVars>>

\* the LLM answers: the rest of FuzzySlicer::slice
LlmReturn(calls, types) ==
    /\ s_pc = "llm"
    /\ LET g1 == AddDependencies(symbol_cache, Graph(nodes, edges), s_target, calls, 1, "Calls")
           g2 == AddDependencies(symbol_cache, g1, s_target, types, 1, "References")
       IN /\ nodes' = g2.nodes
          /\ edges' = g2.edges
    /\ s_pc' = "done"
    /\ s_ret' = "ok"
    /\ UNCHANGED <<diagVars, fuzzyVars, s_target, s_strategy, s_requests, s_defs, s_d, s_reported, s_answers, s_builds, s_backend, s_kept>>
    /\ UNCHANGED <<bfsVars, ctxVars, verifierVars, extractVars, llmVars, lspVars, callerVars>>

\* the loop over refs with the edge drawn from the target to the reference
RECURSIVE AddRefsReversed(_, _, _, _)
AddRefsReversed(g, refs, i, target_id) ==
    IF i > Len(refs) THEN g
    ELSE LET ref_id == refs[i] IN
         AddRefsReversed(Graph(add_node(g.nodes,
                                CodeNode(ref_id, read_location(ref_id.file, ref_id.line), "reference")),
                       add_edge(g.edges, Edge(target_id, ref_id, "References"))),
                 refs, i + 1, target_id)

\* the `for location in refs` loop
RECURSIVE AddRefs(_, _, _, _)
AddRefs(g, refs, i, target_id) ==
    IF i > Len(refs) THEN g
    ELSE LET ref_id == refs[i] IN
         AddRefs(Graph(add_node(g.nodes,
                                CodeNode(ref_id, read_location(ref_id.file, ref_id.line), "reference")),
                       add_edge(g.edges, Edge(ref_id, target_id, "References"))),
                 refs, i + 1, target_id)

\* get_references returns: the loop over refs, then get_definition is issued
ReferencesReturn(refs) ==
    /\ s_pc = "references"
    /\ LET g == AddRefs(Graph(nodes, edges), refs, 1, s_target) IN
       /\ nodes' = g.nodes
       /\ edges' = g.edges
    /\ s_answers' = s_answers + Len(refs)
    /\ s_requests' = s_requests \cup {Methods_definition}
    /\ s_pc' = "definition"
    /\ UNCHANGED <<diagVars, fuzzyVars, s_target, s_strategy, s_defs, s_d, s_reported, s_ret, s_builds, s_backend, s_kept>>
    /\ UNCHANGED <<bfsVars, ctxVars, verifierVars, extractVars, llmVars, lspVars, callerVars>>

\* the loop over defs reaches position d: past the end build_graph returns
\* Ok(graph); otherwise the definition node and the Defines edge are added and
\* prepare_call_hierarchy is issued
EnterDef(g, defs, d) ==
    /\ s_d' = d
    /\ IF d > Len(defs)
       THEN /\ nodes' = g.nodes
            /\ edges' = g.edges
            /\ s_pc' = "done"
            /\ s_ret' = "ok"
            /\ UNCHANGED s_requests
       ELSE LET def_id == defs[d] IN
            /\ nodes' = add_node(g.nodes,
                          CodeNode(def_id, read_implementation(def_id.file, def_id.line), "definition"))
            /\ edges' = add_edge(g.edges, Edge(s_target, def_id, "Defines"))
            /\ s_requests' = s_requests \cup {Methods_prepare}
            /\ s_pc' = "prepare"
            /\ UNCHANGED s_ret

\* get_definition returns
DefinitionReturn(defs) ==
    /\ s_pc = "definition"
    /\ s_defs' = defs
    /\ s_answers' = s_answers + Len(defs)
    /\ EnterDef(Graph(nodes, edges), defs, 1)
    /\ UNCHANGED <<diagVars, fuzzyVars, s_target, s_strategy, s_reported, s_builds, s_backend, s_kept>>
    /\ UNCHANGED <<bfsVars, ctxVars, verifierVars, extractVars, llmVars, lspVars, callerVars>>

\* prepare_call_hierarchy returns no item or one item; for an item
\* get_outgoing_calls is issued
PrepareReturn(items) ==
    /\ s_pc = "prepare"
    /\ IF items = 0
       THEN EnterDef(Graph(nodes, edges), s_defs, s_d + 1)
       ELSE /\ s_requests' = s_requests \cup {Methods_outgoing}
            /\ s_pc' = "outgoing"
            /\ UNCHANGED <<graphVars, s_d, s_ret>>
    /\ UNCHANGED <<diagVars, fuzzyVars, s_target, s_strategy, s_defs, s_reported, s_answers, s_builds, s_backend, s_kept>>
    /\ UNCHANGED <<bfsVars, ctxVars, verifierVars, extractVars, llmVars, lspVars, callerVars>>

\* the `for range in &call.from_ranges` loop
AnySiteReachable(def_path, from_ranges) ==
    \E i \in DOMAIN from_ranges :
        is_reachable(def_path, from_ranges[i].line, from_ranges[i].character)

\* the `for call in outgoing` loop
RECURSIVE AddCalls(_, _, _, _)
AddCalls(g, outgoing, i, def_id) ==
    IF i > Len(outgoing) THEN g
    ELSE LET call == outgoing[i]
             call_id == call.to
         IN IF call_id \notin DOMAIN g.nodes
            THEN IF ~AnySiteReachable(def_id.file, call.from_ranges)
                 THEN AddCalls(g, outgoing, i + 1, def_id)
                 ELSE AddCalls(Graph(add_node(g.nodes,
                                        CodeNode(call_id,
                                                 read_implementation(call_id.file, call_id.line),
                                                 "call")),
                                     add_edge(g.edges, Edge(def_id, call_id, "Calls"))),
                               outgoing, i + 1, def_id)
            ELSE AddCalls(Graph(g.nodes, add_edge(g.edges, Edge(def_id, call_id, "Calls"))),
                          outgoing, i + 1, def_id)

\* get_outgoing_calls returns: the loop over the calls, then the next definition
OutgoingReturn(outgoing) ==
    /\ s_pc = "outgoing"
    /\ s_reported' = s_reported \o [i \in DOMAIN outgoing |->
                                      [from |-> s_defs[s_d], call |-> outgoing[i]]]
    /\ s_answers' = s_answers + Len(outgoing)
    /\ EnterDef(AddCalls(Graph(nodes, edges), outgoing, 1, s_defs[s_d]), s_defs, s_d + 1)
    /\ UNCHANGED <<diagVars, fuzzyVars, s_target, s_strategy, s_defs, s_builds, s_backend, s_kept>>
    /\ UNCHANGED <<bfsVars, ctxVars, verifierVars, extractVars, llmVars, lspVars, callerVars>>

\* the caller drops the graph; the slicer is ready for the next call
SliceDrop ==
    /\ s_pc = "done"
    /\ nodes' = EmptyNodes
    /\ edges' = EmptyEdges
    /\ s_pc' = "idle"
    /\ s_target' = NoNodeId
    /\ s_strategy' = "none"
    /\ s_requests' = {}
    /\ s_defs' = <<>>
    /\ s_d' = 0
    /\ s_reported' = <<>>
    /\ s_answers' = 0
    /\ s_ret' = "none"
    /\ UNCHANGED <<diagVars, fuzzyVars, s_builds, s_backend, s_kept>>
    /\ UNCHANGED <<bfsVars, ctxVars, verifierVars, extractVars, llmVars, lspVars, callerVars>>

InitSlice ==
    /\ nodes = EmptyNodes
    /\ edges = EmptyEdges
    /\ BfsIdle
    /\ CtxIdle
    /\ LspIdle
    /\ CallersIdle
    /\ SliceIdle
    /\ VerifierIdle
    /\ ExtractIdle
    /\ LlmIdle

NextSlice ==
    \/ \E t \in TargetNodeId, d \in DiagLists : s_builds < MaxBuilds /\ BuildGraph(t, d)
    \/ BackendPublish
    \/ ReaderDiagnostics
    \/ SleepElapsed
    \/ RequestFails
    \/ \E calls \in LlmCalls, types \in LlmTypes : LlmReturn(calls, types)
    \/ \E refs \in LocLists(MaxAnswers - s_answers) : ReferencesReturn(refs)
    \/ \E defs \in LocLists(MaxAnswers - s_answers) : DefinitionReturn(defs)
    \/ \E items \in {0, 1} : PrepareReturn(items)
    \/ \E outgoing \in CallLists(MaxAnswers - s_answers) : OutgoingReturn(outgoing)
    \/ SliceDrop

SpecSlice == InitSlice /\ [][NextSlice]_vars

----------------------------------------------------------------------------
(* slicer.rs: build_graph called twice on one Slicer, the workspace and the
   backend's answers being the same for both calls *)

\* what the backend and the LLM answer, request by request, for one workspace
\* and one target
Backends ==
    [target : SliceNodeId, diag : DiagLists, refs : LocLists(1), defs : LocLists(1),
     items : {0, 1},
     outgoing : {<<>>} \cup {<<[to |-> n, from_ranges |-> <<Site(7)>>]>> : n \in SliceNodeId},
     calls : LlmCalls, types : LlmTypes]

\* build_graph has returned and the caller keeps the result; the slicer is ready
\* for the next call
SliceKeep ==
    /\ s_pc = "done"
    /\ s_kept' = Append(s_kept, [ret |-> s_ret, strategy |-> s_strategy,
                                 graph |-> Graph(nodes, edges)])
    /\ nodes' = EmptyNodes
    /\ edges' = EmptyEdges
    /\ s_pc' = "idle"
    /\ s_target' = NoNodeId
    /\ s_strategy' = "none"
    /\ s_requests' = {}
    /\ s_defs' = <<>>
    /\ s_d' = 0
    /\ s_reported' = <<>>
    /\ s_answers' = 0
    /\ s_ret' = "none"
    /\ UNCHANGED <<diagVars, fuzzyVars, s_builds, s_backend>>
    /\ UNCHANGED <<bfsVars, ctxVars, verifierVars, extractVars, llmVars, lspVars, callerVars>>

InitTwice ==
    /\ nodes = EmptyNodes
    /\ edges = EmptyEdges
    /\ BfsIdle
    /\ CtxIdle
    /\ LspIdle
    /\ CallersIdle
    /\ VerifierIdle
    /\ ExtractIdle
    /\ LlmIdle
    /\ diagnostics = <<>>
    /\ notifications = <<>>
    /\ srv_opened = FALSE
    /\ srv_diag = <<>>
    /\ d_handled = <<>>
    /\ d_query = NoQuery
    /\ symbol_cache = <<>>
    /\ workspace_scanned = FALSE
    /\ s_pc = "idle"
    /\ s_target = NoNodeId
    /\ s_strategy = "none"
    /\ s_requests = {}
    /\ s_defs = <<>>
    /\ s_d = 0
    /\ s_reported = <<>>
    /\ s_answers = 0
    /\ s_ret = "none"
    /\ s_builds = 0
    /\ s_backend \in Backends
    /\ s_kept = <<>>

NextTwice ==
    \/ Len(s_kept) = s_builds /\ s_builds < 2 /\ BuildGraph(s_backend.target, s_backend.diag)
    \/ BackendPublish
    \/ ReaderDiagnostics
    \/ SleepElapsed
    \/ LlmReturn(s_backend.calls, s_backend.types)
    \/ ReferencesReturn(s_backend.refs)
    \/ DefinitionReturn(s_backend.defs)
    \/ PrepareReturn(s_backend.items)
    \/ OutgoingReturn(s_backend.outgoing)
    \/ SliceKeep

SpecTwice == InitTwice /\ [][NextTwice]_vars

----------------------------------------------------------------------------
(* verifier.rs: calls of check_consistency and verify_integer_reachability *)

\* the tuples (name, op, value) the verifier is called on; "%" is an
\* operator the match arms do not know
VerifierVals == {0, 1, 2}
VerifierOps == SupportedOps \cup {"%"}
VerifierConstraints ==
    {Constraint("x", op, val) : op \in VerifierOps, val \in VerifierVals}
        \cup {Constraint("y", "==", 0), Constraint("y", "!=", 0)}

ConstraintLists(n) == UNION {[1..k -> VerifierConstraints] : k \in 0..n}

\* a call of check_consistency(&constraints)
CheckConsistency ==
    /\ v_pc = "idle"
    /\ v_pc' = "done"
    /\ v_ret' = [fn |-> "check_consistency",
                 ret |-> VerifierOk(check_consistency(v_constraints))]
    /\ UNCHANGED <<v_constraints, v_target>>
    /\ UNCHANGED <<graphVars, bfsVars, ctxVars, lspVars, callerVars, sliceVars, extractVars, llmVars>>

\* a call of verify_integer_reachability(&constraints, target)
VerifyIntegerReachability(target) ==
    /\ v_pc = "idle"
    /\ v_pc' = "done"
    /\ v_target' = target
    /\ v_ret' = [fn |-> "verify_integer_reachability",
                 ret |-> verify_integer_reachability(v_constraints, target)]
    /\ UNCHANGED v_constraints
    /\ UNCHANGED <<graphVars, bfsVars, ctxVars, lspVars, callerVars, sliceVars, extractVars, llmVars>>

InitVerifier ==
    /\ nodes = EmptyNodes
    /\ edges = EmptyEdges
    /\ BfsIdle
    /\ CtxIdle
    /\ LspIdle
    /\ CallersIdle
    /\ SliceIdle
    /\ v_pc = "idle"
    /\ v_constraints \in ConstraintLists(MaxConstraints)
    /\ v_target = [var |-> "", op |-> "", val |-> 0]
    /\ v_ret = [fn |-> "none"]
    /\ ExtractIdle
    /\ LlmIdle

NextVerifier ==
    \/ CheckConsistency
    \/ \E target \in VerifierConstraints : VerifyIntegerReachability(target)

SpecVerifier == InitVerifier /\ [][NextVerifier]_vars

----------------------------------------------------------------------------
(* Claims about the pruning of call sites *)

\* the values of the variables after the statements stmts, from the values env
RECURSIVE Exec(_, _)
Exec(stmts, env) ==
    IF stmts = <<>> THEN env
    ELSE LET st == Head(stmts) IN
         Exec(Tail(stmts),
              [v \in DOMAIN env \cup {st.var} |-> IF v = st.var THEN st.val ELSE env[v]])

\* a op b
Compare(a, op, b) ==
    \/ op = "<" /\ a < b
    \/ op = "<=" /\ a <= b
    \/ op = ">" /\ a > b
    \/ op = ">=" /\ a >= b
    \/ op = "==" /\ a = b
    \/ op = "!=" /\ a # b

\* the condition of the `if` is true when control comes to it
CondTaken(body) ==
    LET x == Exec(body.pre, <<>>)[body.cond.var] IN
    IF body.cond.literal_left THEN Compare(body.cond.val, body.cond.op, x)
    ELSE Compare(x, body.cond.op, body.cond.val)

\* the execution of the body comes to the call site
ReachesSite(body) == body.cond = NoCond \/ CondTaken(body)

\* C20: pruning is conservative.  For a call site that the execution reaches,
\* is_reachable returns true; every assignment constraint (name == v) emitted
\* for it holds for the value the variable has at the site, also when the
\* variable is bound again by a later let or assigned to before the site; and
\* every emitted condition is one that held when control came to the `if`.
C20_PruningIsConservative ==
    (e_ret.fn = "is_reachable" /\ ReachesSite(e_body)) =>
        /\ e_ret.reachable
        /\ \A i \in DOMAIN e_ret.assignments :
              LET a == e_ret.assignments[i] IN
              Exec(e_body.inner, Exec(e_body.pre, <<>>))[a.var] = a.val
        /\ \A i \in DOMAIN e_ret.conditions :
              LET c == e_ret.conditions[i] IN
              Compare(Exec(e_body.pre, <<>>)[c.var], c.op, c.val)

----------------------------------------------------------------------------
(* Claims about the diagnostics table *)

\* the diagnostics of the last of the notifications ns that is for uri, the
\* empty list when there is none
RECURSIVE LastFor(_, _)
LastFor(ns, uri) ==
    IF ns = <<>> THEN <<>>
    ELSE IF ns[Len(ns)].uri = uri THEN ns[Len(ns)].diagnostics
    ELSE LastFor(SubSeq(ns, 1, Len(ns) - 1), uri)

\* C18: get_diagnostics(path) returns the diagnostics of the most recent
\* publishDiagnostics notification handled for the file's URI, the empty list
\* if there was none; so each notification replaces the list of its URI and
\* leaves the lists of the other URIs as they were.
C18_LatestDiagnosticsPerUri ==
    /\ d_query.path # "none" =>
          d_query.ret = LastFor(SubSeq(d_handled, 1, d_query.at), from_file_path(d_query.path))
    /\ \A path \in DiagPaths :
          get_diagnostics(path) = LastFor(d_handled, from_file_path(path))

\* two notifications for one file with different lists and one for the other
\* file between them have been handled, and get_diagnostics answers each file
\* with its own latest list
C18_Witness ==
    /\ Len(d_handled) = 3
    /\ d_handled[1].uri = d_handled[3].uri
    /\ d_handled[2].uri # d_handled[1].uri
    /\ d_handled[1].diagnostics # d_handled[3].diagnostics
    /\ d_handled[2].diagnostics # d_handled[3].diagnostics
    /\ d_query.at = 3
    /\ from_file_path(d_query.path) = d_handled[3].uri
    /\ d_query.ret = d_handled[3].diagnostics

----------------------------------------------------------------------------
(* Claims about the graphs build_graph returns *)

\* C16: in every graph build_graph returns, on the strict and on the fuzzy
\* path, both endpoints of every edge are keys of the node map.
C16_EdgeEndpointsAreNodes ==
    (s_pc = "done" /\ s_ret = "ok") =>
        \A i \in DOMAIN edges :
            /\ edges[i].from \in DOMAIN nodes
            /\ edges[i].to \in DOMAIN nodes

\* a strict graph is returned with a Calls edge, and a fuzzy graph is returned
\* with an edge to a node other than the target
C16_Witness ==
    /\ s_pc = "done"
    /\ s_ret = "ok"
    /\ \/ /\ s_strategy = "strict"
          /\ \E i \in DOMAIN edges : edges[i].edge_type = "Calls" /\ edges[i].to # s_target
       \/ /\ s_strategy = "fuzzy"
          /\ \E i \in DOMAIN edges : edges[i].to # s_target

\* C17: a target line past the end of the file makes the call fail with an
\* error on both paths: build_graph (strict) and FuzzySlicer::slice return Err
\* and no graph.
C17_OutOfBoundsTargetFails ==
    (s_pc = "done" /\ s_target.line >= Len(Source)) => s_ret = "err"

\* the NodeIds at the head of the edges of a type, and at their tail
HeadsOf(edge_type) == {edges[i].to : i \in {j \in DOMAIN edges : edges[j].edge_type = edge_type}}
TailsOf(edge_type) == {edges[i].from : i \in {j \in DOMAIN edges : edges[j].edge_type = edge_type}}

\* the NodeIds bfs_from(target) lists on the returned graph
ReachedFromTarget ==
    LET pairs == bfs_from(edges, s_target) IN {pairs[i][1] : i \in DOMAIN pairs}

\* C30: in a graph the strict path returns, every edge is a References edge
\* from a reference to the target, a Defines edge from the target to a
\* definition, or a Calls edge from a definition to a callee; so
\* bfs_from(target) reaches only the target, definitions and callees, and a
\* reference is reached only if its NodeId is also the target's, a
\* definition's or a callee's.
C30_StrictGraphShape ==
    (s_pc = "done" /\ s_ret = "ok" /\ s_strategy = "strict") =>
        LET forward == {s_target} \cup HeadsOf("Defines") \cup HeadsOf("Calls") IN
        /\ \A i \in DOMAIN edges :
              \/ edges[i].edge_type = "References" /\ edges[i].to = s_target
              \/ edges[i].edge_type = "Defines" /\ edges[i].from = s_target
              \/ edges[i].edge_type = "Calls" /\ edges[i].from \in HeadsOf("Defines")
        /\ ReachedFromTarget \subseteq forward
        /\ \A r \in TailsOf("References") : r \in ReachedFromTarget => r \in forward

\* a strict graph is returned with a definition and with a reference that
\* bfs_from(target) does not reach
C30_Witness ==
    /\ s_pc = "done" /\ s_ret = "ok" /\ s_strategy = "strict"
    /\ HeadsOf("Defines") # {}
    /\ \E r \in TailsOf("References") : r \notin ReachedFromTarget

\* C21: while build_graph builds a graph, a node whose NodeId is already in the
\* node map is never replaced; so on the strict path the node of the target,
\* which is inserted first, keeps its code (the target line) and its kind
\* "target" when a reference or a definition is located at the target.
C21_FirstNodeKept ==
    (s_strategy = "strict" /\ s_target \in DOMAIN nodes) =>
        nodes[s_target] =
            CodeNode(s_target, read_location(s_target.file, s_target.line), "target")

\* how many of the workspace's symbols have the name
SymbolsNamed(name) ==
    Cardinality({i \in DOMAIN DefinedSymbols : DefinedSymbols[i].name = name})

\* C22: over any sequence of slice calls on one FuzzySlicer the workspace is
\* scanned at most once: workspace_scanned only changes from false to true, it
\* is true only when a scan has completed (the cache then holds every symbol
\* of the workspace once), and once it is true no later call scans again or
\* changes the symbol cache.
C22_ScannedAtMostOnce ==
    /\ [](~workspace_scanned => symbol_cache = <<>>)
    /\ [](workspace_scanned =>
            /\ DOMAIN symbol_cache = {DefinedSymbols[i].name : i \in DOMAIN DefinedSymbols}
            /\ \A name \in DOMAIN symbol_cache :
                  Len(symbol_cache[name]) = SymbolsNamed(name))
    /\ [][workspace_scanned =>
            (workspace_scanned' /\ symbol_cache' = symbol_cache)]_vars

\* the second of two calls on one slicer has chosen the fuzzy slicer after the
\* first call had scanned the workspace
C22_Witness ==
    /\ Len(s_kept) = 1
    /\ s_kept[1].strategy = "fuzzy"
    /\ s_kept[1].ret = "ok"
    /\ s_strategy = "fuzzy"
    /\ s_pc = "llm"
    /\ workspace_scanned

\* the workspace has a symbol of the name
Known(name) == SymbolsNamed(name) > 0

\* the first symbol of the name in the order of the scan
FirstSymbol(name) ==
    DefinedSymbols[CHOOSE i \in DOMAIN DefinedSymbols :
                      /\ DefinedSymbols[i].name = name
                      /\ \A j \in DOMAIN DefinedSymbols :
                            DefinedSymbols[j].name = name => i <= j]

FirstDefId(name) ==
    [file |-> FirstSymbol(name).file, line |-> FirstSymbol(name).line, column |-> 0]

\* one edge target -> first definition for every known name of names, in order
EdgesFor(names, target_id, edge_type) ==
    LET known == SelectSeq(names, Known) IN
    [i \in DOMAIN known |-> Edge(target_id, FirstDefId(known[i]), edge_type)]

\* C23: for each name the LLM reports, the fuzzy slicer adds exactly one edge
\* from the target to the first-inserted definition of that name in the symbol
\* cache, of type Calls for the names of `calls` and Defines for those of
\* `types`; the definition's node is added only if its NodeId is absent; a name
\* without a cache entry adds neither node nor edge and does not fail the slice.
C23_FuzzyEdgesPerName ==
    (s_pc = "done" /\ s_strategy = "fuzzy") =>
        LET expected == EdgesFor(s_backend.calls, s_target, "Calls")
                            \o EdgesFor(s_backend.types, s_target, "Defines")
        IN /\ s_ret = "ok"
           /\ edges = expected
           /\ DOMAIN nodes = {s_target} \cup {expected[i].to : i \in DOMAIN expected}
           /\ nodes[s_target].node_type = "target"
           /\ \A i \in DOMAIN expected :
                 LET name == (SelectSeq(s_backend.calls, Known)
                                 \o SelectSeq(s_backend.types, Known))[i]
                     id == expected[i].to
                 IN id # s_target =>
                       nodes[id] = CodeNode(id, FirstSymbol(name).code, FirstSymbol(name).kind)

\* a fuzzy slice of the last line has returned for calls = [g, f] and
\* types = [f]: g is dropped, f gives a Calls and a Defines edge to the first f
C23_Witness ==
    /\ s_pc = "done"
    /\ s_strategy = "fuzzy"
    /\ s_ret = "ok"
    /\ s_backend.calls = <<"g", "f">>
    /\ s_backend.types = <<"f">>
    /\ s_target.line # 0
    /\ Len(edges) = 2
    /\ Cardinality(DOMAIN nodes) = 2

----------------------------------------------------------------------------
(* Claims about repeated build_graph calls *)

\* how often the edge e occurs in the edge list es
Occurrences(es, e) == Cardinality({i \in DOMAIN es : es[i] = e})

SameEdgeMultiset(es1, es2) ==
    \A e \in {es1[i] : i \in DOMAIN es1} \cup {es2[i] : i \in DOMAIN es2} :
        Occurrences(es1, e) = Occurrences(es2, e)

\* C15: two build_graph calls with the same workspace contents, the same
\* backend answers and the same target return graphs with equal node sets and
\* equal edge multisets, also when the second call runs on the slicer whose
\* fuzzy symbol cache the first call filled.
C15_SameGraphTwice ==
    Len(s_kept) = 2 =>
        /\ s_kept[1].ret = "ok"
        /\ s_kept[2].ret = "ok"
        /\ DOMAIN s_kept[1].graph.nodes = DOMAIN s_kept[2].graph.nodes
        /\ SameEdgeMultiset(s_kept[1].graph.edges, s_kept[2].graph.edges)

----------------------------------------------------------------------------
(* fuzzy_slicer.rs: analyze_dependencies, from the LLM's response on *)

\* a text is the sequence of its pieces: the fence of three backticks, the
\* word json, white space, and a JSON object with the fields calls and types
Backticks == "backticks"
WordJson == "json"
Space == " "
JsonObject == "{calls, types}"
Pieces == {Backticks, WordJson, Space, JsonObject}

\* str::trim
RECURSIVE trim_start(_)
trim_start(s) == IF s # <<>> /\ Head(s) = Space THEN trim_start(Tail(s)) ELSE s
RECURSIVE trim_end(_)
trim_end(s) ==
    IF s # <<>> /\ s[Len(s)] = Space THEN trim_end(SubSeq(s, 1, Len(s) - 1)) ELSE s
trim(s) == trim_end(trim_start(s))

starts_with(s, p) == Len(s) >= Len(p) /\ SubSeq(s, 1, Len(p)) = p
ends_with(s, p) == Len(s) >= Len(p) /\ SubSeq(s, Len(s) - Len(p) + 1, Len(s)) = p

\* Option<&str>
Some(s) == [some |-> TRUE, v |-> s]
None == [some |-> FALSE, v |-> <<>>]
unwrap_or(opt, default) == IF opt.some THEN opt.v ELSE default

strip_prefix(s, p) ==
    IF starts_with(s, p) THEN Some(SubSeq(s, Len(p) + 1, Len(s))) ELSE None
strip_suffix(s, p) ==
    IF ends_with(s, p) THEN Some(SubSeq(s, 1, Len(s) - Len(p))) ELSE None

\* analyze_dependencies, "Clean up response if it contains markdown blocks"
clean_up(response) ==
    LET json_str == trim(response) IN
    IF starts_with(json_str, <<Backticks, WordJson>>)
    THEN trim(unwrap_or(strip_suffix(unwrap_or(strip_prefix(json_str, <<Backticks, WordJson>>),
                                               json_str),
                                     <<Backticks>>),
                        json_str))
    ELSE IF starts_with(json_str, <<Backticks>>)
    THEN trim(unwrap_or(strip_suffix(unwrap_or(strip_prefix(json_str, <<Backticks>>),
                                               json_str),
                                     <<Backticks>>),
                        json_str))
    ELSE json_str

\* serde_json::from_str::<LlmAnalysis>: one object, white space around it allowed
from_str(json_str) ==
    IF trim(json_str) = <<JsonObject>>
    THEN [kind |-> "ok", analysis |-> JsonObject]
    ELSE [kind |-> "err", analysis |-> "Failed to parse LLM response"]

\* analyze_dependencies after self.llm.completion has returned Ok(response)
analyze_dependencies(response) == from_str(clean_up(response))

Responses == UNION {[1..n -> Pieces] : n \in 0..MaxPieces}

\* a call of analyze_dependencies for which the LLM answers l_response
AnalyzeDependencies ==
    /\ l_ret.kind = "none"
    /\ l_ret' = analyze_dependencies(l_response)
    /\ UNCHANGED l_response
    /\ UNCHANGED <<graphVars, bfsVars, ctxVars, lspVars, callerVars, sliceVars, verifierVars, extractVars>>

InitAnalyze ==
    /\ nodes = EmptyNodes
    /\ edges = EmptyEdges
    /\ BfsIdle
    /\ CtxIdle
    /\ LspIdle
    /\ CallersIdle
    /\ SliceIdle
    /\ VerifierIdle
    /\ ExtractIdle
    /\ l_response \in Responses
    /\ l_ret = [kind |-> "none"]

NextAnalyze == AnalyzeDependencies

SpecAnalyze == InitAnalyze /\ [][NextAnalyze]_vars

----------------------------------------------------------------------------
(* Claims about analyze_dependencies *)

\* the text after its leading fence, when it has one
WithoutLeadingFence(s) ==
    IF starts_with(s, <<Backticks, WordJson>>) THEN SubSeq(s, 3, Len(s))
    ELSE IF starts_with(s, <<Backticks>>) THEN SubSeq(s, 2, Len(s))
    ELSE s

\* the text after its trailing fence, when it has one
WithoutTrailingFence(s) ==
    IF ends_with(s, <<Backticks>>) THEN SubSeq(s, 1, Len(s) - 1) ELSE s

\* valid JSON with both fences, with only a leading fence, or with no fence
ValidJsonFencedOrNot(response) ==
    LET text == trim(response)
        inner == IF starts_with(text, <<Backticks>>)
                 THEN WithoutTrailingFence(WithoutLeadingFence(text))
                 ELSE text
    IN trim(inner) = <<JsonObject>>

\* C24: a response that is valid JSON with both fences, with only a leading
\* fence, or with no fence parses to the one analysis the JSON holds, and a
\* valid response without fences reaches the parser trimmed and otherwise
\* unchanged.
C24_FencesAreOptional ==
    l_ret.kind # "none" =>
        /\ ValidJsonFencedOrNot(l_response) =>
               l_ret = [kind |-> "ok", analysis |-> JsonObject]
        /\ trim(l_response) = <<JsonObject>> =>
               clean_up(l_response) = trim(l_response)

----------------------------------------------------------------------------
(* slicer.rs: is_reachable on the call site of a function body *)

\* the operators a Constraint may carry
ComparisonOps == {"<", "<=", ">", ">=", "==", "!="}

\* C26: every Constraint extract_constraints returns carries an operator of
\* the closed set {<, <=, >, >=, ==, !=}: assignments carry "==", and a
\* condition is emitted only for a binary expression whose operator is in the
\* set, with the identifier on the left or on the right.
C26_OperatorsInClosedSet ==
    e_ret.fn = "is_reachable" =>
        /\ \A i \in DOMAIN e_ret.assignments : e_ret.assignments[i].op = "=="
        /\ \A i \in DOMAIN e_ret.conditions : e_ret.conditions[i].op \in ComparisonOps
        /\ (e_body.cond # NoCond /\ e_body.cond.op \notin ComparisonOps)
               => e_ret.conditions = <<>>

BodyVals == {5, 20}
BodyStmts == {LetStmt("x", v) : v \in BodyVals} \cup {AssignStmt("x", v) : v \in BodyVals}
\* the binary operators of the conditions: the comparisons and a bitwise and
BodyOps == SupportedOps \cup {"&"}
BodyConds ==
    {Cond("x", op, 10) : op \in BodyOps} \cup {CondFlipped(10, op, "x") : op \in BodyOps}

\* the bodies the extractor is given: x is declared by the first statement
Bodies ==
    {b \in [pre : UNION {[1..n -> BodyStmts] : n \in 1..MaxStmts},
            cond : BodyConds \cup {NoCond},
            inner : UNION {[1..n -> BodyStmts] : n \in 0..1}] :
        /\ IsLet(b.pre[1])
        /\ b.cond = NoCond => b.inner = <<>>}

\* a call of is_reachable on the call site of e_body
IsReachable ==
    /\ e_pc = "idle"
    /\ e_pc' = "done"
    /\ LET cs == extract_constraints_in(e_body) IN
       e_ret' = [fn |-> "is_reachable", assignments |-> cs.assignments,
                 conditions |-> cs.conditions, reachable |-> constraints_consistent(cs)]
    /\ UNCHANGED e_body
    /\ UNCHANGED <<graphVars, bfsVars, ctxVars, lspVars, callerVars, sliceVars, verifierVars, llmVars>>

InitExtract ==
    /\ nodes = EmptyNodes
    /\ edges = EmptyEdges
    /\ BfsIdle
    /\ CtxIdle
    /\ LspIdle
    /\ CallersIdle
    /\ SliceIdle
    /\ VerifierIdle
    /\ e_pc = "idle"
    /\ e_body \in Bodies
    /\ e_ret = [fn |-> "none"]
    /\ LlmIdle

NextExtract == IsReachable

SpecExtract == InitExtract /\ [][NextExtract]_vars

----------------------------------------------------------------------------
(* Claims about the verifier *)

\* the closed operator set of the claims
ClaimOps == {"<", "<=", ">", ">=", "==", "!="}

\* the integers an assignment needs to range over: every literal, and as many
\* integers below and above them as there can be constraints, and one more
ClaimInts == (MinOf(VerifierVals) - MaxConstraints - 2)..(MaxOf(VerifierVals) + MaxConstraints + 2)

\* the integer x satisfies the tuple c
Satisfies(c, x) ==
    \/ c.op = "<" /\ x < c.val
    \/ c.op = "<=" /\ x <= c.val
    \/ c.op = ">" /\ x > c.val
    \/ c.op = ">=" /\ x >= c.val
    \/ c.op = "==" /\ x = c.val
    \/ c.op = "!=" /\ x # c.val

\* some assignment of integers to the variables satisfies every tuple of cs
\* whose operator is in the closed set
SatisfiableInClosedSet(cs) ==
    \E m \in [{cs[i].var : i \in DOMAIN cs} -> ClaimInts] :
        \A i \in DOMAIN cs : cs[i].op \in ClaimOps => Satisfies(cs[i], m[cs[i].var])

\* C12: check_consistency(constraints) is true exactly when some assignment of
\* integers to the named variables satisfies every constraint whose operator
\* is one of <, <=, >, >=, ==, !=; so it is true of the empty list and of a
\* single equality, and false of [(x, >, 10), (x, <, 5)].
C12_ConsistencyIsSatisfiability ==
    /\ v_ret.fn = "check_consistency" =>
          /\ v_ret.ret = VerifierOk(SatisfiableInClosedSet(v_constraints))
          /\ v_constraints = <<>> => v_ret.ret.value = TRUE
          /\ (Len(v_constraints) = 1 /\ v_constraints[1].op = "==") => v_ret.ret.value = TRUE
    /\ check_consistency(<<Constraint("x", ">", 10), Constraint("x", "<", 5)>>) = FALSE

\* check_consistency has answered false for x > 1, x < 2, which no integer
\* satisfies
C12_Witness ==
    /\ v_ret.fn = "check_consistency"
    /\ v_constraints = <<Constraint("x", ">", 1), Constraint("x", "<", 2)>>
    /\ v_ret.ret.value = FALSE

\* C13: verify_integer_reachability([(x, >, a)], (x, <, b)) is true exactly
\* when b > a + 1, and verify_integer_reachability([(x, ==, v)], (x, !=, v))
\* is false, for all a, b and v.
C13_ReachabilityOfIntegerGap ==
    (v_ret.fn = "verify_integer_reachability" /\ Len(v_constraints) = 1) =>
        LET c == v_constraints[1] IN
        /\ (c.var = v_target.var /\ c.op = ">" /\ v_target.op = "<") =>
              v_ret.ret = VerifierOk(v_target.val > c.val + 1)
        /\ (c.var = v_target.var /\ c.op = "==" /\ v_target.op = "!=" /\ c.val = v_target.val) =>
              v_ret.ret = VerifierOk(FALSE)

\* verify_integer_reachability has answered false for x > 0 with target x < 1
C13_Witness ==
    /\ v_ret.fn = "verify_integer_reachability"
    /\ v_constraints = <<Constraint("x", ">", 0)>>
    /\ v_target = Constraint("x", "<", 1)
    /\ v_ret.ret = VerifierOk(FALSE)

\* some assignment of integers satisfies every tuple of cs
SatisfiableAll(cs) ==
    \E m \in [{cs[i].var : i \in DOMAIN cs} -> ClaimInts] :
        \A i \in DOMAIN cs : Satisfies(cs[i], m[cs[i].var])

InClosedSet(c) == c.op \in ClaimOps

\* C14: verify_integer_reachability returns the "unsupported operator" error
\* exactly when a constraint or the target has an operator outside the closed
\* set; check_consistency never fails: it returns the satisfiability of the
\* constraints that remain when those with such operators are left out.
C14_UnsupportedOperators ==
    /\ v_ret.fn = "verify_integer_reachability" =>
          (v_ret.ret = VerifierErr
             <=> (\/ \E i \in DOMAIN v_constraints : ~InClosedSet(v_constraints[i])
                  \/ ~InClosedSet(v_target)))
    /\ v_ret.fn = "check_consistency" =>
          /\ v_ret.ret.kind = "ok"
          /\ v_ret.ret.value = SatisfiableAll(SelectSeq(v_constraints, InClosedSet))

\* check_consistency has answered for a list whose first tuple has an
\* operator outside the closed set
C14_Witness ==
    /\ v_ret.fn = "check_consistency"
    /\ Len(v_constraints) = 2
    /\ v_constraints[1].op = "%"
    /\ v_constraints[2].op \in ClaimOps
    /\ v_ret.ret = VerifierOk(TRUE)

----------------------------------------------------------------------------
(* Claims about build_graph *)

\* the number of positions of a sequence that satisfy a test
CountEdges(from, to, edge_type) ==
    Cardinality({i \in DOMAIN edges : edges[i] = Edge(from, to, edge_type)})

CountReachableCalls(from, to) ==
    Cardinality({i \in DOMAIN s_reported :
                    /\ s_reported[i].from = from
                    /\ s_reported[i].call.to = to
                    /\ AnySiteReachable(from.file, s_reported[i].call.from_ranges)})

\* C1: on the strict path every outgoing call the backend reported for a
\* definition has its Calls edge definition -> callee exactly when one of its
\* from-ranges is reachable, whatever nodes the graph held when the call was
\* processed: the Calls edges from a definition to a callee are as many as the
\* reported calls to it that have a reachable site.
C1_CallsEdgeIffReachable ==
    s_strategy = "strict" =>
        \A from \in SliceNodeId, to \in SliceNodeId :
            CountEdges(from, to, "Calls") = CountReachableCalls(from, to)

\* C3: once build_graph has chosen its slicer, a file for which the client
\* holds a diagnostic of severity Error is sliced by the fuzzy slicer with no
\* references / definition / call-hierarchy request issued, and a file for
\* which the backend finds no Error is sliced by the strict slicer, which
\* queries the backend; whenever the reader handles publishDiagnostics.
C3_StrategyFollowsDiagnostics ==
    s_strategy # "none" =>
        /\ error_count(get_diagnostics(s_target.file)) > 0 =>
              (s_strategy = "fuzzy" /\ s_requests \cap GraphMethods = {})
        /\ error_count(srv_diag) = 0 =>
              (s_strategy = "strict" /\ Methods_references \in s_requests)

\* C4: a graph that build_graph holds, and the one it returns with Ok, on the
\* strict and on the fuzzy path, has a node keyed by the target NodeId,
\* whatever was added after the target node.
C4_TargetInGraph ==
    (s_strategy # "none" /\ s_ret # "err") => s_target \in DOMAIN nodes

\* the strict path returns a graph in which a definition has the NodeId of the
\* target and a call has another
C4_Witness ==
    /\ s_pc = "done"
    /\ s_ret = "ok"
    /\ s_strategy = "strict"
    /\ s_target \in DOMAIN nodes
    /\ nodes[s_target].node_type = "definition"
    /\ \E n \in DOMAIN nodes : n # s_target /\ nodes[n].node_type = "call"

----------------------------------------------------------------------------
(* Claims about LspClient *)

\* 500 * (1 + 2 + ... + k)
BackoffTotal(k) == BackoffMs * ((k * (k + 1)) \div 2)

\* C7 (as amended): on a content-modified error (code -32801 or the text
\* "content modified") request sends again, at most 4 times after the first
\* attempt (5 sends in all), after sleeping 500 ms x the number of the failed
\* attempt; so a request that has made a attempts has slept
\* 500 * (1 + ... + (a - 1)) ms, a request that returns Ok after k failures
\* (k <= 4) has slept 500 * (1 + ... + k) ms, and a content-modified error
\* is returned to the caller only from the fifth attempt.
C7_RetryBackoff ==
    \A c \in Callers :
        /\ c_attempts[c] <= MaxAttempts
        /\ c_pc[c] = "loop" =>
              /\ c_attempts[c] < MaxAttempts
              /\ c_slept[c] = BackoffTotal(c_attempts[c])
        /\ c_pc[c] \in {"send", "await", "done"} =>
              c_slept[c] = BackoffTotal(c_attempts[c] - 1)
        /\ (c_pc[c] = "done" /\ is_content_modified(c_ret[c])) =>
              c_attempts[c] = MaxAttempts

\* scenario S6: two content-modified errors, then a result: 500 + 1000 ms
C7_Witness ==
    \E c \in Callers :
        /\ c_pc[c] = "done"
        /\ c_ret[c].kind = "ok"
        /\ c_ret[c].re = c_id[c]
        /\ c_attempts[c] = 3
        /\ c_slept[c] = 1500

\* the caller c takes from its receiver an error of the backend that is not a
\* content-modified error
TakesOtherError(c) ==
    /\ c_pc[c] = "await"
    /\ c_rx[c] # NoValue
    /\ c_rx[c].kind = "err"
    /\ ~is_content_modified(c_rx[c])
    /\ c_rx'[c] = NoValue

\* C19: when the backend answers a request with an error that is not a
\* content-modified error, request returns that error to the caller at once:
\* no sleep and no re-send follow it, so an error answering the first send is
\* returned after exactly one send and no sleep at all.
C19_OtherErrorsReturnedAtOnce ==
    [][\A c \in Callers :
          TakesOtherError(c) =>
              /\ c_pc'[c] = "done"
              /\ c_ret'[c] = c_rx[c]
              /\ c_attempts'[c] = c_attempts[c]
              /\ c_slept'[c] = c_slept[c]
              /\ chan' = chan
              /\ next_id' = next_id
              /\ c_attempts[c] = 1 => c_slept'[c] = 0]_vars

\* an internal error answering the first send has been returned: one send,
\* no sleep
C19_Witness ==
    \E c \in Callers :
        /\ c_pc[c] = "done"
        /\ c_ret[c].kind = "err"
        /\ c_ret[c].error = [code |-> -32603, message |-> "internal error"]
        /\ c_ret[c].re = c_id[c]
        /\ c_attempts[c] = 1
        /\ c_slept[c] = 0

\* the ids of the requests that are on the writer channel or with the backend
SentIds ==
    {chan[i].id : i \in {j \in DOMAIN chan : chan[j].kind = "request"}}
        \cup {r.id : r \in inflight}

\* caller c takes an id in this step
TakesId(c) == c_pc[c] = "loop" /\ c_pc'[c] = "send"

\* C25: request ids are unique and strictly increasing under every
\* interleaving of concurrent request calls, re-sends of the retry loop
\* included: the counter starts at 0, it changes only when a caller takes an
\* id, the id taken is one more than the id taken before it (so the first is
\* 1), and no two requests on their way to the backend carry the same id.
C25_IdsUniqueAndIncreasing ==
    /\ next_id = 0
    /\ [][\A c \in Callers :
             TakesId(c) => /\ c_id'[c] = next_id + 1
                           /\ next_id' = next_id + 1]_vars
    /\ [][next_id' # next_id => \E c \in Callers : TakesId(c)]_vars
    /\ [](/\ \A i, j \in DOMAIN chan :
                (i # j /\ chan[i].kind = "request" /\ chan[j].kind = "request")
                    => chan[i].id # chan[j].id
          /\ \A r, q \in inflight : r.id = q.id => r = q
          /\ \A i \in DOMAIN chan :
                chan[i].kind = "request" => \A r \in inflight : r.id # chan[i].id
          /\ \A id \in SentIds : 1 <= id /\ id <= next_id
          /\ \A c, d \in Callers :
                (c # d /\ c_pc[c] \in {"send", "await"} /\ c_pc[d] \in {"send", "await"})
                    => c_id[c] # c_id[d])

\* both callers have requests out at once, one of them a re-send of the
\* retry loop, with different ids
C25_Witness ==
    \E c, d \in Callers :
        /\ c # d
        /\ c_pc[c] = "await" /\ c_attempts[c] >= 2
        /\ c_pc[d] = "await"
        /\ c_id[c] # c_id[d]
        /\ {c_id[c], c_id[d]} \subseteq SentIds
        /\ next_id >= 3

\* C27: whenever request has returned, with Ok or with any Err, none of the
\* ids it registered is still a key of the pending-request table: the table
\* holds only ids of requests whose caller is still waiting for the response.
C27_NoPendingIdAfterReturn ==
    \A id \in DOMAIN pending :
        /\ c_pc[pending[id]] # "done"
        /\ c_pc[pending[id]] = "await" /\ c_id[pending[id]] = id

\* the reader consumes the response to the request with this id in this step
ConsumesResponse(id) == \E r \in inflight : r.id = id /\ r \notin inflight'

\* C28: a pending request is completed only by a response to its id.  A
\* message of the server that carries an id and a method (a request of the
\* server's own), and whose id is the id of a pending request, neither
\* completes that request nor removes it from the pending table: an id leaves
\* the table, and a value reaches its caller's channel, only in a step that
\* consumes the response to the request with that id.
C28_ServerRequestLeavesPending ==
    [][/\ \A id \in DOMAIN pending : id \notin DOMAIN pending' => ConsumesResponse(id)
       /\ \A c \in Callers :
             (c_rx'[c] # c_rx[c] /\ c_rx'[c] # NoValue) => ConsumesResponse(c_id[c])]_vars

\* C7 (as claimed): request re-sends up to 5 times after the first attempt, so
\* it gives a content-modified error back only when the sixth send has failed
\* (and a backend that fails 5 times and then succeeds gets its result through).
C7_FiveResends ==
    \A c \in Callers :
        (c_pc[c] = "done" /\ is_content_modified(c_ret[c])) =>
            c_attempts[c] = MaxAttempts + 1

\* C8: a response is delivered to the caller whose request carried the same
\* id: with several requests outstanding and the backend answering in any
\* order, what a caller's receiver holds, and what request returns to it on
\* the strength of a response, is the backend's answer to that caller's own
\* request.
C8_ResponseToOwnRequest ==
    \A c \in Callers :
        /\ c_rx[c] # NoValue =>
              /\ c_rx[c].re = c_id[c]
              /\ (c_rx[c].kind = "ok" /\ c_rx[c].result.kind = "request") =>
                    c_rx[c].result = c_req[c]
        /\ (c_pc[c] = "done" /\ c_ret[c].kind = "ok" /\ c_ret[c].result.kind = "request") =>
              /\ c_ret[c].result = c_req[c]
              /\ c_ret[c].re = c_id[c]

\* both callers have a request outstanding and the later one is answered first
C8_Witness ==
    /\ c_pc[1] = "await"
    /\ c_pc[2] = "await"
    /\ c_id[1] < c_id[2]
    /\ c_rx[1] = NoValue
    /\ \E r \in inflight : r.id = c_id[1]
    /\ c_rx[2] # NoValue
    /\ c_rx[2].kind = "ok"
    /\ c_rx[2].result = c_req[2]

\* C9: once the reader task has seen EOF, every request and notify call made
\* afterwards fails with the "writer closed" error: it neither succeeds nor
\* is left waiting.
C9_FailsAfterEof ==
    /\ \A c \in Callers :
          c_after_eof[c] =>
              \/ c_pc[c] \in {"loop", "send"}
              \/ c_pc[c] = "done" /\ c_ret[c] = ErrWriterClosed
    /\ last_notify.after_eof => last_notify.kind = "err"

----------------------------------------------------------------------------
(* Claims about HierarchicalContext::build *)

RECURSIVE SumOver(_, _)
\* the sum of f[k] over the keys k of S
SumOver(f, S) ==
    IF S = {} THEN 0
    ELSE LET k == CHOOSE x \in S : TRUE IN f[k] + SumOver(f, S \ {k})

\* the estimate of the claim: characters / 4, rounded up
estimate_tokens_ceil(text) == (StrLen(text) + 3) \div 4

\* the estimated tokens (bytes / 4, rounded up) of every section but the root's
CeilTokensBesideRoot ==
    SumOver([k \in DOMAIN sections |-> estimate_tokens_ceil(sections[k].content)],
            DOMAIN sections \ {ctx_root})

\* C2: the sections build produces, the depth-0 target section excluded, have a
\* total estimated token count (characters / 4, rounded up) of at most
\* max_tokens.
C2_BudgetObeyed ==
    ctx_pc = "done" => CeilTokensBesideRoot <= max_tokens

\* the estimated tokens of the sections of the first i NodeIds in BFS order
RECURSIVE TokensUpTo(_, _)
TokensUpTo(bfs, i) ==
    IF i = 0 THEN 0
    ELSE (IF bfs[i][1] \in DOMAIN sections
          THEN estimate_tokens(sections[bfs[i][1]].content) ELSE 0)
         + TokensUpTo(bfs, i - 1)

\* C10: a depth-1 node is rendered FullSource only if the total tokens after
\* including it (the depth-0 target, every section selected before it, and the
\* node itself) is at most max_tokens; otherwise it is compressed. With a
\* 4000-character target, one 4000-character dependency and max_tokens = 1500
\* the dependency is therefore not FullSource.
C10_FullOnlyWithinBudget ==
    ctx_pc = "done" =>
        LET bfs == bfs_from(edges, ctx_root) IN
        \A i \in 1..Len(bfs) :
            (/\ bfs[i][2] = 1
             /\ bfs[i][1] \in DOMAIN sections
             /\ sections[bfs[i][1]].level = "FullSource")
            => TokensUpTo(bfs, i) <= max_tokens

\* C11: for every max_tokens >= 0 and every graph that holds the root, the
\* context build returns has a section for the root, whose content is the
\* root node's code verbatim and whose level is FullSource.
C11_RootSectionPresent ==
    (ctx_pc = "done" /\ ctx_root \in DOMAIN nodes) =>
        /\ ctx_root \in DOMAIN sections
        /\ sections[ctx_root] = Section(nodes[ctx_root].code, "FullSource")

----------------------------------------------------------------------------
(* Claims about bfs_from *)

\* the NodeIds of a sequence of (NodeId, distance) pairs are pairwise distinct
DistinctIds(pairs) ==
    \A i \in 1..Len(pairs), j \in 1..Len(pairs) : i # j => pairs[i][1] # pairs[j][1]

\* C5: bfs_from(root) terminates and lists no NodeId more than once, on every
\* graph (cycles, self-loops, parallel edges): at every point of the loop the
\* pairs already in result and those still queued carry pairwise distinct
\* NodeIds, all of them marked visited, so the loop pops at most one pair per
\* NodeId and then finds the queue empty.
C5_BfsNoRepeat ==
    bfs_pc # "idle" =>
        /\ DistinctIds(result \o queue)
        /\ Len(result) + Len(queue) = Cardinality(visited)
        /\ Len(result) <= Cardinality(BfsNodeId)

\* a traversal that has returned from a graph with a cycle through the root
C5_Witness ==
    /\ bfs_pc = "done"
    /\ Len(result) >= 2
    /\ \E i \in 1..Len(edges) : edges[i].to = bfs_root /\ edges[i].from # bfs_root
    /\ \E i \in 1..Len(edges) : edges[i].to = edges[i].from

\* C6: the first pair of the sequence bfs_from(root) returns is (root, 0) and
\* the distance of each later pair is at least the distance of the pair
\* before it.
C6_BfsOrder ==
    bfs_pc # "idle" =>
        /\ result # <<>> => result[1] = <<bfs_root, 0>>
        /\ \A i \in 1..(Len(result) - 1) : result[i][2] <= result[i + 1][2]

\* a returned traversal with two NodeIds at distance 1 or a NodeId at distance 2
C6_Witness ==
    /\ bfs_pc = "done"
    /\ Len(result) >= 3
    /\ result[Len(result)][2] >= 1

\* the NodeIds within k edges of root, following edges from `from` to `to`
RECURSIVE Within(_, _, _)
Within(es, root, k) ==
    IF k = 0 THEN {root}
    ELSE LET near == Within(es, root, k - 1) IN
         near \cup {es[i].to : i \in {j \in DOMAIN es : es[j].from \in near}}

\* the NodeIds reachable from root: a shortest path has at most Len(es) edges
Reachable(es, root) == Within(es, root, Len(es))

\* the number of edges on a shortest path from root to the reachable node n
ShortestPath(es, root, n) ==
    CHOOSE k \in 0..Len(es) :
        /\ n \in Within(es, root, k)
        /\ k > 0 => n \notin Within(es, root, k - 1)

\* C29: bfs_from(root) returns exactly the NodeIds reachable from root by
\* following edges from `from` to `to`, whatever the edge type, and the
\* distance it reports for each is the number of edges on a shortest such
\* path from the root.
C29_BfsReachabilityAndDistance ==
    bfs_pc = "done" =>
        /\ {result[i][1] : i \in DOMAIN result} = Reachable(edges, bfs_root)
        /\ \A i \in DOMAIN result :
              result[i][2] = ShortestPath(edges, bfs_root, result[i][1])

\* a returned traversal with a NodeId two edges from the root and an edge
\* that starts at a NodeId the root does not reach
C29_Witness ==
    /\ bfs_pc = "done"
    /\ \E i \in DOMAIN result : result[i][2] = 2
    /\ \E j \in DOMAIN edges :
          edges[j].from \notin {result[i][1] : i \in DOMAIN result}

====
